---------------------------- MODULE Spec2Model ----------------------------
(***************************************************************************)
(* Storage engine of ESTL: the flash backend (Storage_Flash.c) and the     *)
(* alternating-EEPROM backend (Storage_EepromAlternate.c), modelled at the *)
(* level of the bytes of the non-volatile memory.  The checksum is the     *)
(* CRC-32 of Crc.c, computed nibble by nibble as the code computes it.     *)
(***************************************************************************)
EXTENDS Integers, Sequences, FiniteSets, TLC

(***************************************************************************)
(* Bounds of the model.                                                    *)
(***************************************************************************)
\* flash page size in flash blocks (NV_MEM_PAGE_SIZE is a Target.h setting)
MaxPageBlocks == 13
\* writes and clean restarts in a run of the flash backend
MaxWrites == 4
MaxRestarts == 2
\* writes and power losses in a run of the flash backend with power losses
TearMaxWrites == 2
MaxPowerLoss == 2
\* configured image sizes of the alternating backend
\* (ESTL_STORAGE_PARAMETER_IMAGE_SIZE, ESTL_STORAGE_APPLICATION_IMAGE_SIZE)
ParameterImageSize == 10
ApplicationImageSize == 9
\* generations of a slot other than the first, and of the first slot after
\* its counter has wrapped, in a run through all generations of the first slot
MaxOtherGen == 2
MaxGenAfterWrap == 2
\* calls of StorageEepromAlternate_Write (returned or interrupted), power
\* losses and I2C errors in a run of the alternating backend with power
\* losses or I2C errors, and the writes before the start of such a run
AltTearMaxOps == 3
MaxAltPowerLoss == 2
MaxAltBusErrors == 2
AltStartWrites == 254
\* calls of StorageEeprom_Write in a run of the linear backend
MaxLinWrites == 3
\* writes, power losses and I2C errors of the alternating backend in a run
\* that looks at the regions of the slots
EepromAltOps == 2
\* calls other than reads in a run with calls of Read
ReadMaxOps == 2
\* the number of writes before a write of the linear backend is interrupted
LinTearWrites == 2
\* number of starts on flash contents that the module has not written
MaxForged == 2
\* number of writes in the runs that count the erases of the pages
EraseMaxWrites == 4
\* number of writes per backend in the runs with failing I2C attempts
RetryMaxOps == 1
\* writes of a backend before a bit of a stored record is changed
TamperMaxWrites == 2

(***************************************************************************)
(* Program constants.                                                      *)
(***************************************************************************)
NR_OF_STORAGES == 3
NV_MEM_TOTAL_PAGES == 2
NV_MEM_DATA_ALIGNMENT == 32
BYTES_PER_FLASH_BLOCK == NV_MEM_DATA_ALIGNMENT \div 8
NV_MEM_PAGE_SIZE == MaxPageBlocks * BYTES_PER_FLASH_BLOCK
\* sizeof(storage_header_t): crc32 (4), size (2), index (1), counter (1)
HEADER_SIZE == 8
\* sizeof(page_info_t) with 32 bit alignment: erase_counter (2), reserved (2)
PAGE_INFO_SIZE == 4
NV_MEM_PAGE_INFO_ADDR == NV_MEM_PAGE_SIZE - PAGE_INFO_SIZE
\* one byte of NV_MEM_PAGE_EMPTY_VALUE
EMPTY_BYTE == 255
\* the NULL pointer of the header index
NULL == -1

StorageIds == 0 .. (NR_OF_STORAGES - 1)
Pages == 0 .. (NV_MEM_TOTAL_PAGES - 1)

(***************************************************************************)
(* Error codes (Error.h): OK is 0, the enumeration goes on from            *)
(* UNKNOWN_ERROR = -128; a non-negative result of a read is a size.        *)
(***************************************************************************)
OK == 0
UNKNOWN_ERROR == -128
INDEX_OUT_OF_BOUNDARY == UNKNOWN_ERROR + 1
BUFFER_TOO_SMALL == UNKNOWN_ERROR + 11
STORAGE_NOT_INITIALIZED == UNKNOWN_ERROR + 12
STORAGE_CRC_MISMATCH == UNKNOWN_ERROR + 14
STORAGE_INDEX_MISMATCH == UNKNOWN_ERROR + 16
STORAGE_DATA_TOO_BIG == UNKNOWN_ERROR + 17
\* used by Storage_Flash.c, listed after STORAGE_DATA_TOO_BIG in Error.c
STORAGE_DATA_UNAVAILABLE == UNKNOWN_ERROR + 18
I2C_TIMEOUT == UNKNOWN_ERROR + 42
I2C_ERROR == UNKNOWN_ERROR + 43

(***************************************************************************)
(* Crc.c: CRC-32, half-byte table.                                         *)
(***************************************************************************)
\* bitwise exclusive or of two half bytes
Bit(a, i) == (a \div i) % 2
XorBit(a, b, i) == (Bit(a, i) + Bit(b, i)) % 2
XorNibble ==
  [a \in 0..15 |-> [b \in 0..15 |->
    XorBit(a, b, 1) + 2 * XorBit(a, b, 2) + 4 * XorBit(a, b, 4) + 8 * XorBit(a, b, 8)]]

\* A uint32_t is held as its eight half bytes, lowest first (TLC's integers
\* are signed 32 bit), and stored in memory as four little-endian bytes.
U32_ZERO == << 0, 0, 0, 0, 0, 0, 0, 0 >>

\* the table of Crc_Crc32, each entry as half bytes, lowest first
crc32_half_lookup ==
  << <<0, 0, 0, 0, 0, 0, 0, 0>>,
     <<4, 6, 0, 1, 7, 11, 13, 1>>,
     <<8, 12, 0, 2, 14, 6, 11, 3>>,
     <<12, 10, 0, 3, 9, 13, 6, 2>>,
     <<0, 9, 1, 4, 12, 13, 6, 7>>,
     <<4, 15, 1, 5, 11, 6, 11, 6>>,
     <<8, 5, 1, 6, 2, 11, 13, 4>>,
     <<12, 3, 1, 7, 5, 0, 0, 5>>,
     <<0, 2, 3, 8, 8, 11, 13, 14>>,
     <<4, 4, 3, 9, 15, 0, 0, 15>>,
     <<8, 14, 3, 10, 6, 13, 6, 13>>,
     <<12, 8, 3, 11, 1, 6, 11, 12>>,
     <<0, 11, 2, 12, 4, 6, 11, 9>>,
     <<4, 13, 2, 13, 3, 13, 6, 8>>,
     <<8, 7, 2, 14, 10, 0, 0, 10>>,
     <<12, 1, 2, 15, 13, 11, 13, 11>> >>

\* (crc >> 4) ^ crc32_half_lookup[(crc ^ n) & 0x0F], n a half byte of data
Crc32Step(crc, n) ==
  LET t == crc32_half_lookup[XorNibble[crc[1]][n] + 1]
  IN  [i \in 1..8 |-> XorNibble[IF i < 8 THEN crc[i + 1] ELSE 0][t[i]]]

\* the loop body for one data byte: low half byte, then high half byte
Crc32Byte(crc, d) == Crc32Step(Crc32Step(crc, d % 16), (d \div 16) % 16)

RECURSIVE Crc32Loop(_, _, _)
Crc32Loop(data, i, crc) ==
  IF i > Len(data) THEN crc
  ELSE \* the crc of a byte is a value before the next byte is taken
       LET next == Crc32Byte(crc, data[i])
       IN  IF next[1] \in 0 .. 15 THEN Crc32Loop(data, i + 1, next) ELSE next

\* x ^ 0xFFFFFFFF, the same as ~x
Not32(x) == [i \in 1..8 |-> 15 - x[i]]

\* Crc_Crc32(data, length, previous_crc32), data a sequence of bytes
Crc_Crc32(data, previous_crc32) == Not32(Crc32Loop(data, 1, Not32(previous_crc32)))

\* the bytes of a uint32_t, a uint16_t in memory (little endian)
U32Bytes(v) == [k \in 1..4 |-> v[2 * k - 1] + 16 * v[2 * k]]
U16Bytes(v) == << v % 256, (v \div 256) % 256 >>

(***************************************************************************)
(* Storage_Flash.c: the non-volatile memory and the records in it.         *)
(* mem is TARGET_NV_MEM, the bytes of both pages one after the other; a    *)
(* pointer to a header is its offset from NV_MEM_START_ADDRESS.  The state *)
(* of the module (StorageFlash_Data and the memory) is passed around as a  *)
(* record st with the fields mem, headers, pages_info, active_page,        *)
(* is_initialized, and fuel: the number of flash operations (one block     *)
(* programmed, one page erased) the supply still lasts; a negative fuel is *)
(* a supply that stays on, and it counts the operations downwards.         *)
(***************************************************************************)
PAGE_UNINITIALIZED == "PAGE_UNINITIALIZED"
PAGE_IS_VALID == "PAGE_IS_VALID"
PAGE_IS_CORRUPTED == "PAGE_IS_CORRUPTED"

MemAddrs == 0 .. (NV_MEM_TOTAL_PAGES * NV_MEM_PAGE_SIZE - 1)

\* &TARGET_NV_MEM->pages[page][addr]
PagePtr(page, addr) == page * NV_MEM_PAGE_SIZE + addr

\* n bytes of memory from address a on
MemBytes(mem, a, n) == [k \in 1..n |-> mem[a + k - 1]]

\* the fields of the storage_header_t at pointer p
HeaderCrc(mem, p) == MemBytes(mem, p, 4)
HeaderSizeField(mem, p) == mem[p + 4] + 256 * mem[p + 5]
HeaderIndex(mem, p) == mem[p + 6]
HeaderCounter(mem, p) == mem[p + 7]

\* the bytes of a header after its crc32 field: size, index, counter
HeaderTail(size, index, counter) == U16Bytes(size) \o << index, counter >>

StorageFlash_GetSizeRoundedToFlashBlock(byte_size) ==
  IF byte_size % BYTES_PER_FLASH_BLOCK # 0
    THEN (byte_size - (byte_size % BYTES_PER_FLASH_BLOCK)) + BYTES_PER_FLASH_BLOCK
    ELSE byte_size

\* header->crc32 == Crc_Crc32(((uint8_t*)header) + 4, sizeof(storage_header_t) - 4 + header->size, 0)
HeaderCrcMatches(mem, p) ==
  HeaderCrc(mem, p) =
    U32Bytes(Crc_Crc32(MemBytes(mem, p + 4, HEADER_SIZE - 4 + HeaderSizeField(mem, p)), U32_ZERO))

StorageFlash_RecordIsValid(mem, page, addr) ==
  IF addr + HEADER_SIZE + HeaderSizeField(mem, PagePtr(page, addr)) > NV_MEM_PAGE_INFO_ADDR
    THEN FALSE
    ELSE HeaderCrcMatches(mem, PagePtr(page, addr))

\* Target_NvMemWrite as sketched in the file comment: the bytes are stored
\* one flash block after the other, as long as the power lasts
Target_NvMemWrite(st, page, addr, data) ==
  LET blocks  == (Len(data) + BYTES_PER_FLASH_BLOCK - 1) \div BYTES_PER_FLASH_BLOCK
      written == IF st.fuel < 0 \/ st.fuel >= blocks THEN Len(data)
                 ELSE st.fuel * BYTES_PER_FLASH_BLOCK
      base    == PagePtr(page, addr)
  IN  [st EXCEPT
        !.mem  = [a \in MemAddrs |->
                    IF a >= base /\ a < base + written THEN data[a - base + 1]
                    ELSE st.mem[a]],
        !.fuel = IF st.fuel < 0 \/ st.fuel >= blocks THEN st.fuel - blocks ELSE 0]

\* Target_NvMemErasePage: the whole page reads as the empty value after it
Target_NvMemErasePage(st, page) ==
  IF st.fuel = 0 THEN st
  ELSE [st EXCEPT
          !.mem  = [a \in MemAddrs |->
                      IF a >= PagePtr(page, 0) /\ a < PagePtr(page + 1, 0)
                        THEN EMPTY_BYTE ELSE st.mem[a]],
          !.fuel = st.fuel - 1]

\* variant: the checksum field is not counted to the header
InitScanAdvance_WithoutCrc(mem, header) ==
  (HEADER_SIZE - 4) + StorageFlash_GetSizeRoundedToFlashBlock(HeaderSizeField(mem, header))

\* calculate next record's address: what one iteration of the scan of
\* StorageFlash_Init adds to the address
InitScanAdvance(mem, header) ==
  HEADER_SIZE + StorageFlash_GetSizeRoundedToFlashBlock(HeaderSizeField(mem, header))

\* the while loop of StorageFlash_Init over the records of one page;
\* the result is the address after the last valid record and the headers
RECURSIVE InitScanRecords(_, _, _, _)
InitScanRecords(mem, page, address, headers) ==
  IF address < NV_MEM_PAGE_INFO_ADDR /\ StorageFlash_RecordIsValid(mem, page, address)
    THEN
      LET header == PagePtr(page, address)
          index  == HeaderIndex(mem, header)
          diff   == (HeaderCounter(mem, header) - HeaderCounter(mem, headers[index]) + 256) % 256
          hdrs   == IF NR_OF_STORAGES > index /\ HeaderCrcMatches(mem, header)
                      THEN IF headers[index] = NULL
                             THEN [headers EXCEPT ![index] = header]
                             ELSE IF diff > 0 /\ diff <= 127
                                    THEN [headers EXCEPT ![index] = header]
                                    ELSE headers
                      ELSE headers
      IN  InitScanRecords(mem, page, address + InitScanAdvance(mem, header), hdrs)
    ELSE [address |-> address, headers |-> headers]

\* variant: the rest of the page is not looked at
InitRestIsEmpty_Unchecked(mem, page, address) == TRUE

\* the while loop that checks that the rest of the page is empty
RECURSIVE InitRestIsEmpty(_, _, _)
InitRestIsEmpty(mem, page, address) ==
  IF address < NV_MEM_PAGE_INFO_ADDR
    THEN IF MemBytes(mem, PagePtr(page, address), 4)
              # << EMPTY_BYTE, EMPTY_BYTE, EMPTY_BYTE, EMPTY_BYTE >>
           THEN FALSE
           ELSE InitRestIsEmpty(mem, page, address + 4)
    ELSE TRUE

\* the body of the for loop of StorageFlash_Init for one page; acc holds the
\* module state st and the local variable empty_pages
\* the part of the loop body after the scan of the records, scan being the
\* result of InitScanRecords
InitPageStatus(acc, page, scan) ==
  IF scan.address <= NV_MEM_PAGE_INFO_ADDR
    THEN [st |-> [acc.st EXCEPT
                   !.headers = scan.headers,
                   !.pages_info[page] =
                      [address |-> scan.address,
                       status  |-> IF InitRestIsEmpty(acc.st.mem, page, scan.address)
                                     THEN PAGE_IS_VALID ELSE PAGE_IS_CORRUPTED]],
          empty_pages |-> IF scan.address = 0 THEN acc.empty_pages + 1
                          ELSE acc.empty_pages]
    ELSE [st |-> [acc.st EXCEPT
                   !.headers = scan.headers,
                   !.pages_info[page].status = PAGE_IS_CORRUPTED],
          empty_pages |-> acc.empty_pages]

InitPage(acc, page) ==
  InitPageStatus(acc, page, InitScanRecords(acc.st.mem, page, 0, acc.st.headers))

\* variant: of two pages with data the one with less room is taken
InitActivePage_Fuller(acc) ==
  [acc.st EXCEPT
     !.active_page =
        IF acc.empty_pages = NV_MEM_TOTAL_PAGES THEN 0
        ELSE IF acc.empty_pages = 0
          THEN IF acc.st.pages_info[0].address > acc.st.pages_info[1].address THEN 0 ELSE 1
          ELSE IF acc.st.pages_info[0].address # 0 THEN 0 ELSE 1,
     !.is_initialized = TRUE]

\* the choice of the active page after the loop over the pages
InitActivePage(acc) ==
  [acc.st EXCEPT
     !.active_page =
        IF acc.empty_pages = NV_MEM_TOTAL_PAGES THEN 0
        ELSE IF acc.empty_pages = 0
          THEN IF acc.st.pages_info[0].address < acc.st.pages_info[1].address THEN 0 ELSE 1
          ELSE IF acc.st.pages_info[0].address # 0 THEN 0 ELSE 1,
     !.is_initialized = TRUE]

StorageFlash_Init(st) ==
  InitActivePage(InitPage(InitPage([st |-> st, empty_pages |-> 0], 0), 1))

StorageFlash_HeaderGetPage(header) ==
  IF header # NULL THEN header \div NV_MEM_PAGE_SIZE ELSE 255

StorageFlash_HeaderGetAddress(header) ==
  IF header # NULL THEN header % NV_MEM_PAGE_SIZE ELSE 65535

\* the for loop of StorageFlash_PageHoldsValidDataSize, size a uint16_t
RECURSIVE PageHoldsLoop(_, _, _, _)
PageHoldsLoop(st, page, i, size) ==
  IF i >= NR_OF_STORAGES THEN size
  ELSE PageHoldsLoop(st, page, i + 1,
         IF StorageFlash_HeaderGetPage(st.headers[i]) = page
           THEN (size + HEADER_SIZE + HeaderSizeField(st.mem, st.headers[i])) % 65536
           ELSE size)

\* variant: the page is taken to hold more than a page can take
StorageFlash_PageHoldsValidDataSize_Full(st, page) == NV_MEM_PAGE_SIZE

StorageFlash_PageHoldsValidDataSize(st, page) == PageHoldsLoop(st, page, 0, 0)

\* current_page_info->erase_counter of a page in the memory m
EraseCounter(m, page) ==
  m[PagePtr(page, NV_MEM_PAGE_INFO_ADDR)] + 256 * m[PagePtr(page, NV_MEM_PAGE_INFO_ADDR) + 1]

\* variant: the erase counter is written back as it was read
StorageFlash_ErasePage_SameCounter(st, page) ==
  IF NV_MEM_TOTAL_PAGES > page
    THEN
      LET counter == EraseCounter(st.mem, page)
          wiped   == Target_NvMemErasePage(st, page)
      IN  Target_NvMemWrite(
            [wiped EXCEPT
               !.pages_info[page] = [address |-> 0, status |-> PAGE_IS_VALID],
               !.erased[page] = IF wiped.fuel # 0 THEN @ + 1 ELSE @],
            page, NV_MEM_PAGE_INFO_ADDR, U16Bytes(counter) \o << 255, 255 >>)
    ELSE st

\* the field erased of the result counts the calls per page in which the
\* power lasted for the erase and the write of the page info
StorageFlash_ErasePage(st, page) ==
  IF NV_MEM_TOTAL_PAGES > page
    THEN
      LET counter == (EraseCounter(st.mem, page) + 1) % 65536
          wiped   == Target_NvMemErasePage(st, page)
      IN  Target_NvMemWrite(
            [wiped EXCEPT
               !.pages_info[page] = [address |-> 0, status |-> PAGE_IS_VALID],
               !.erased[page] = IF wiped.fuel # 0 THEN @ + 1 ELSE @],
            page, NV_MEM_PAGE_INFO_ADDR, U16Bytes(counter) \o << 255, 255 >>)
    ELSE st

\* the second Target_NvMemWrite of the loop of StorageFlash_MigrateToActivePage:
\* the payload is written from where it is in the flash
MigrateData(st, page, addr, src, size) ==
  Target_NvMemWrite(st, page, addr, MemBytes(st.mem, src, size))

\* the for loop of StorageFlash_MigrateToActivePage
RECURSIVE MigrateLoop(_, _, _)
MigrateLoop(st, page, i) ==
  IF i >= NR_OF_STORAGES THEN st
  ELSE IF StorageFlash_HeaderGetPage(st.headers[i]) = page
    THEN
      LET active_page      == st.active_page
          active_page_addr == st.pages_info[st.active_page].address
          size    == HeaderSizeField(st.mem, st.headers[i])
          index   == HeaderIndex(st.mem, st.headers[i])
          counter == (HeaderCounter(st.mem, st.headers[i]) + 1) % 256
          crc32   == Crc_Crc32(MemBytes(st.mem, st.headers[i] + HEADER_SIZE, size),
                       Crc_Crc32(HeaderTail(size, index, counter), U32_ZERO))
      IN  MigrateLoop(
            [MigrateData(
               Target_NvMemWrite(st, active_page, active_page_addr,
                                 U32Bytes(crc32) \o HeaderTail(size, index, counter)),
               active_page, active_page_addr + HEADER_SIZE,
               st.headers[i] + HEADER_SIZE, size)
             EXCEPT
               !.headers[i] = PagePtr(active_page, active_page_addr),
               !.pages_info[active_page].address =
                  active_page_addr + HEADER_SIZE + StorageFlash_GetSizeRoundedToFlashBlock(size)],
            page, i + 1)
    ELSE MigrateLoop(st, page, i + 1)

\* the result is the state and the returned bool_t
StorageFlash_MigrateToActivePage(st, page) ==
  LET valid_data_size == StorageFlash_PageHoldsValidDataSize(st, page)
  IN  IF valid_data_size = 0 THEN [st |-> st, ret |-> TRUE]
      ELSE IF valid_data_size > NV_MEM_PAGE_INFO_ADDR - st.pages_info[st.active_page].address
        THEN [st |-> st, ret |-> FALSE]
        ELSE [st |-> MigrateLoop(st, page, 0), ret |-> TRUE]

\* the first for loop of StorageFlash_RenewPage: buffer is the RAM copy (as
\* bytes), buffer_index counts flash blocks.  A record copied to the block
\* buffer_index overwrites the buffer from there on, and it is longer than
\* the up to three bytes the record before it reaches beyond that block.
RECURSIVE RenewCopyLoop(_, _, _, _)
RenewCopyLoop(st, page, i, acc) ==
  IF i >= NR_OF_STORAGES THEN acc
  ELSE IF StorageFlash_HeaderGetPage(st.headers[i]) = page
    THEN
      LET length == HEADER_SIZE + HeaderSizeField(st.mem, st.headers[i])
          offset == acc.buffer_index * BYTES_PER_FLASH_BLOCK
      IN  RenewCopyLoop(st, page, i + 1,
            [buffer       |-> SubSeq(acc.buffer, 1, offset)
                                \o MemBytes(st.mem, st.headers[i], length),
             buffer_index |-> acc.buffer_index + (length \div BYTES_PER_FLASH_BLOCK),
             addresses    |-> [acc.addresses EXCEPT ![i] = offset],
             address_is_valid |-> [acc.address_is_valid EXCEPT ![i] = TRUE]])
    ELSE RenewCopyLoop(st, page, i + 1, acc)

\* the part of StorageFlash_RenewPage after the erase: the RAM copy is
\* written to the erased page and the pointers are set
RenewWriteBack(erased, page, copy) ==
  IF 0 < copy.buffer_index
    THEN [Target_NvMemWrite(erased, page, 0,
            SubSeq(copy.buffer, 1, copy.buffer_index * BYTES_PER_FLASH_BLOCK))
          EXCEPT
            !.pages_info[page].address = copy.buffer_index * BYTES_PER_FLASH_BLOCK,
            !.headers = [i \in StorageIds |->
                           IF copy.address_is_valid[i]
                             THEN PagePtr(page, copy.addresses[i])
                             ELSE erased.headers[i]]]
    ELSE erased

\* the result is the state; the error code is not looked at by the caller
StorageFlash_RenewPage(st, page) ==
  IF NV_MEM_TOTAL_PAGES <= page THEN st
  ELSE
    RenewWriteBack(
      StorageFlash_ErasePage(st, page), page,
      RenewCopyLoop(st, page, 0,
        [buffer |-> << >>, buffer_index |-> 0,
         addresses |-> [i \in StorageIds |-> 0],
         address_is_valid |-> [i \in StorageIds |-> FALSE]]))

\* the three steps of StorageFlash_PrepareAffectedPages: the active page is
\* renewed if it is corrupted, the next page is migrated and erased if it is
\* not empty, the active page is switched if the record does not fit
\* variant: a corrupted active page is left as it is
PrepareRenew_Skip(st) == st

PrepareRenew(st) ==
  IF st.pages_info[st.active_page].status = PAGE_IS_CORRUPTED
    THEN StorageFlash_RenewPage(st, st.active_page)
    ELSE st

PrepareNextPage(st, next_page) ==
  IF st.pages_info[next_page].address # 0
     \/ st.pages_info[next_page].status # PAGE_IS_VALID
    THEN StorageFlash_ErasePage(
           StorageFlash_MigrateToActivePage(st, next_page).st, next_page)
    ELSE st

\* variant: the next page is taken as soon as the record fills the page
PrepareSwitch_Eager(st, next_page, size) ==
  IF NV_MEM_PAGE_INFO_ADDR <= st.pages_info[st.active_page].address + HEADER_SIZE + size
    THEN [st EXCEPT !.active_page = next_page]
    ELSE st

PrepareSwitch(st, next_page, size) ==
  IF NV_MEM_PAGE_INFO_ADDR < st.pages_info[st.active_page].address + HEADER_SIZE + size
    THEN [st EXCEPT !.active_page = next_page]
    ELSE st

StorageFlash_PrepareAffectedPages(st, size) ==
  LET next_page == IF NV_MEM_TOTAL_PAGES <= st.active_page + 1 THEN 0
                   ELSE st.active_page + 1
  IN  PrepareSwitch(PrepareNextPage(PrepareRenew(st), next_page), next_page, size)

\* 0 == memcmp(ptr, data, size): the bytes are compared in order
MemCmpEqual(mem, ptr, data) == \A k \in 1 .. Len(data) : mem[ptr + k - 1] = data[k]

\* the part of StorageFlash_Write after StorageFlash_PrepareAffectedPages:
\* nothing is written if the content is unchanged, else the header and the
\* data are appended to the active page
WriteRecord(st, storage_id, data) ==
  IF st.headers[storage_id] # NULL
     /\ MemCmpEqual(st.mem, st.headers[storage_id] + HEADER_SIZE, data)
    THEN [st |-> st, ret |-> OK]
    ELSE
      LET size    == Len(data)
          counter == IF st.headers[storage_id] = NULL THEN 0
                     ELSE (HeaderCounter(st.mem, st.headers[storage_id]) + 1) % 256
          crc32   == Crc_Crc32(data, Crc_Crc32(HeaderTail(size, storage_id, counter), U32_ZERO))
          page    == st.active_page
          address == st.pages_info[st.active_page].address
      IN  [st |-> [Target_NvMemWrite(
                     Target_NvMemWrite(st, page, address,
                       U32Bytes(crc32) \o HeaderTail(size, storage_id, counter)),
                     page, address + HEADER_SIZE, data)
                   EXCEPT
                     !.headers[storage_id] = PagePtr(page, address),
                     !.pages_info[page].address =
                        address + HEADER_SIZE
                          + StorageFlash_GetSizeRoundedToFlashBlock(size)],
           ret |-> OK]

\* variant: a record that fills the page exactly is refused
StorageFlash_Write_Strict(st, storage_id, data) ==
  IF ~ st.is_initialized THEN [st |-> st, ret |-> STORAGE_NOT_INITIALIZED]
  ELSE IF NR_OF_STORAGES <= storage_id THEN [st |-> st, ret |-> INDEX_OUT_OF_BOUNDARY]
  ELSE IF NV_MEM_PAGE_INFO_ADDR <= HEADER_SIZE + Len(data)
    THEN [st |-> st, ret |-> STORAGE_DATA_TOO_BIG]
  ELSE IF st.pages_info[st.active_page].status = PAGE_UNINITIALIZED
    THEN [st |-> st, ret |-> UNKNOWN_ERROR]
  ELSE WriteRecord(StorageFlash_PrepareAffectedPages(st, Len(data)), storage_id, data)

\* StorageFlash_Write(storage_id, data, size), data a sequence of size bytes;
\* the result is the state and the returned error code
StorageFlash_Write(st, storage_id, data) ==
  LET size == Len(data)
  IN
  IF ~ st.is_initialized THEN [st |-> st, ret |-> STORAGE_NOT_INITIALIZED]
  ELSE IF NR_OF_STORAGES <= storage_id THEN [st |-> st, ret |-> INDEX_OUT_OF_BOUNDARY]
  ELSE IF NV_MEM_PAGE_INFO_ADDR < HEADER_SIZE + size
    THEN [st |-> st, ret |-> STORAGE_DATA_TOO_BIG]
  ELSE IF st.pages_info[st.active_page].status = PAGE_UNINITIALIZED
    THEN [st |-> st, ret |-> UNKNOWN_ERROR]
  ELSE WriteRecord(StorageFlash_PrepareAffectedPages(st, size), storage_id, data)

\* StorageFlash_Read(storage_id, data, size): the result is the returned
\* value (a size or an error code) and the bytes copied to the buffer
StorageFlash_Read(st, storage_id, size) ==
  IF ~ st.is_initialized THEN [ret |-> STORAGE_NOT_INITIALIZED, data |-> << >>]
  ELSE IF NR_OF_STORAGES <= storage_id THEN [ret |-> INDEX_OUT_OF_BOUNDARY, data |-> << >>]
  ELSE IF st.headers[storage_id] = NULL THEN [ret |-> STORAGE_DATA_UNAVAILABLE, data |-> << >>]
  ELSE
    LET header == st.headers[storage_id]
    IN  IF HeaderSizeField(st.mem, header) > size
          THEN [ret |-> BUFFER_TOO_SMALL, data |-> << >>]
        ELSE IF ~ HeaderCrcMatches(st.mem, header)
          THEN [ret |-> STORAGE_CRC_MISMATCH, data |-> << >>]
        ELSE [ret  |-> HeaderSizeField(st.mem, header),
              data |-> MemBytes(st.mem, header + HEADER_SIZE, HeaderSizeField(st.mem, header))]

(***************************************************************************)
(* Storage_I2cEeprom.c and Storage_EepromAlternate.c.  The EEPROM is the   *)
(* 24LC02; the image sizes are those of the configuration of the model.    *)
(* The state is passed around as a record st with the fields eeprom,       *)
(* storage_entry, is_initialized, fuel (the number of bytes the supply     *)
(* still lasts; negative: it stays on, counting the bytes downwards) and   *)
(* bus (the number of I2C write transfers that still succeed; negative:    *)
(* all of them, counting the transfers downwards).                         *)
(***************************************************************************)
I2C_EEPROM_SIZE == 256
I2C_EEPROM_PAGE_SIZE == 8
AMOUNT_OF_ALTERNATING_BLOCKS == 2
Blocks == 0 .. (AMOUNT_OF_ALTERNATING_BLOCKS - 1)
EepromAddrs == 0 .. (I2C_EEPROM_SIZE - 1)

ESTL_STORAGE_ADAPTIVE_DATA_IMAGE_SIZE == 0

PAGE_OPTIMIZED_IMAGE_SIZE(a) ==
  IF a % I2C_EEPROM_PAGE_SIZE # 0
    THEN ((a \div I2C_EEPROM_PAGE_SIZE) + 1) * I2C_EEPROM_PAGE_SIZE
    ELSE a

estimated_image_sizes ==
  [i \in StorageIds |->
     IF i = 0 THEN PAGE_OPTIMIZED_IMAGE_SIZE(ParameterImageSize)
     ELSE IF i = 1 THEN PAGE_OPTIMIZED_IMAGE_SIZE(ApplicationImageSize)
     ELSE PAGE_OPTIMIZED_IMAGE_SIZE(ESTL_STORAGE_ADAPTIVE_DATA_IMAGE_SIZE)]

MAX_IMAGE_SIZE ==
  LET m == IF ParameterImageSize > ApplicationImageSize
             THEN PAGE_OPTIMIZED_IMAGE_SIZE(ParameterImageSize)
             ELSE PAGE_OPTIMIZED_IMAGE_SIZE(ApplicationImageSize)
  IN  IF ESTL_STORAGE_ADAPTIVE_DATA_IMAGE_SIZE > m
        THEN PAGE_OPTIMIZED_IMAGE_SIZE(ESTL_STORAGE_ADAPTIVE_DATA_IMAGE_SIZE)
        ELSE m

\* the EEPROM takes the bytes data[pos + 1 .. pos + n] from the address a on
RECURSIVE EepromStore(_, _, _, _, _)
EepromStore(e, a, data, pos, n) ==
  IF n = 0 THEN e
  ELSE EepromStore([e EXCEPT ![a] = data[pos + 1]], a + 1, data, pos + 1, n - 1)

EEPROM_NR_OF_WRITE_RETRIES == 100

\* the statuses of Target_I2cWrite for a transfer while the bus is down:
\* each attempt of the transfer fails
BusDown == [k \in 1 .. EEPROM_NR_OF_WRITE_RETRIES |-> I2C_ERROR]

\* while (retries --) of StorageI2cEeprom_NvMemWrite, retries > 0: glitch
\* holds the statuses of the attempts that fail before Target_I2cWrite
\* returns OK. The loop ends at the first attempt that returns OK, or with
\* the status of the last attempt when retries is used up
I2cRetryLoop(retries, glitch) ==
  LET succeeding == { k \in 1 .. retries : k > Len(glitch) }
  IN  IF succeeding = { }
        THEN [attempts |-> retries, ret |-> glitch[retries]]
        ELSE [attempts |-> CHOOSE k \in succeeding : \A j \in succeeding : k <= j,
              ret |-> OK]

\* variant: a transfer is not repeated
I2cWriteRetried_Once(glitch) == I2cRetryLoop(1, glitch)

\* retries = EEPROM_NR_OF_WRITE_RETRIES and the loop over the attempts
I2cWriteRetried(glitch) == I2cRetryLoop(EEPROM_NR_OF_WRITE_RETRIES, glitch)

\* the while loop of StorageI2cEeprom_NvMemWrite: one I2C transfer for each
\* part of the data that lies in one EEPROM page. st.bus transfers succeed
\* at the first attempt, the next one fails the attempts of st.glitch, and
\* the bus works from then on; st.tries takes the attempts of each transfer
RECURSIVE EepromWriteLoop(_, _, _, _)
EepromWriteLoop(st, page_addr, data, pos) ==
  IF pos >= Len(data) THEN [st |-> st, ret |-> OK]
  ELSE
    LET room == I2C_EEPROM_PAGE_SIZE - (page_addr % I2C_EEPROM_PAGE_SIZE)
        current_max_len == IF room > Len(data) - pos THEN Len(data) - pos ELSE room
        written == IF st.fuel < 0 \/ st.fuel >= current_max_len THEN current_max_len
                   ELSE st.fuel
        transfer == I2cWriteRetried(IF st.bus = 0 THEN st.glitch ELSE << >>)
    IN  IF transfer.ret # OK
          THEN [st |-> [st EXCEPT !.tries = Append(@, transfer.attempts)],
                ret |-> transfer.ret]
        ELSE EepromWriteLoop(
               [st EXCEPT
                  !.eeprom = EepromStore(st.eeprom, page_addr, data, pos, written),
                  !.fuel = IF st.fuel < 0 \/ st.fuel >= current_max_len
                             THEN st.fuel - current_max_len ELSE 0,
                  !.bus  = IF st.bus = 0 THEN -1 ELSE st.bus - 1,
                  !.tries = Append(@, transfer.attempts)],
               (page_addr - (page_addr % I2C_EEPROM_PAGE_SIZE)) + I2C_EEPROM_PAGE_SIZE,
               data, pos + current_max_len)

StorageI2cEeprom_NvMemWrite(st, addr, data) ==
  IF addr + Len(data) >= I2C_EEPROM_SIZE THEN [st |-> st, ret |-> STORAGE_DATA_TOO_BIG]
  ELSE EepromWriteLoop(st, addr, data, 0)

\* the result is the error code and the bytes read
StorageI2cEeprom_NvMemRead(st, addr, size) ==
  IF addr + size >= I2C_EEPROM_SIZE THEN [ret |-> STORAGE_DATA_TOO_BIG, data |-> << >>]
  ELSE [ret |-> OK, data |-> MemBytes(st.eeprom, addr, size)]

\* the result is the returned value, the counter of the header read and
\* the bytes read to the buffer
StorageEepromAlternate_ReadMinimalCheck(st, index, block, size) ==
  LET entry == st.storage_entry[index]
      hread == StorageI2cEeprom_NvMemRead(st, entry.addr[block], HEADER_SIZE)
      hsize    == hread.data[5] + 256 * hread.data[6]
      hindex   == hread.data[7]
      hcounter == hread.data[8]
      dread == StorageI2cEeprom_NvMemRead(st, entry.addr[block] + HEADER_SIZE, hsize)
      crc   == Crc_Crc32(SubSeq(hread.data, 5, HEADER_SIZE), U32_ZERO)
  IN  IF hread.ret # OK THEN [ret |-> hread.ret, counter |-> 0, data |-> << >>]
      ELSE IF hindex # index
        THEN [ret |-> STORAGE_INDEX_MISMATCH, counter |-> hcounter, data |-> << >>]
      ELSE IF hsize > size
        THEN [ret |-> BUFFER_TOO_SMALL, counter |-> hcounter, data |-> << >>]
      ELSE IF dread.ret # OK THEN [ret |-> dread.ret, counter |-> hcounter, data |-> << >>]
      ELSE IF SubSeq(hread.data, 1, 4) # U32Bytes(Crc_Crc32(dread.data, crc))
        THEN [ret |-> STORAGE_CRC_MISMATCH, counter |-> hcounter, data |-> dread.data]
      ELSE [ret |-> hsize, counter |-> hcounter, data |-> dread.data]

\* header.counter - entry.counter, the difference of two uint8_t taken as int
\* variant: the larger counter is taken to be the newer one
AltCounterAdjacent_Larger(header_counter, entry_counter) == header_counter > entry_counter

AltCounterAdjacent(header_counter, entry_counter) == 1 = header_counter - entry_counter

\* the condition of StorageEepromAlternate_Init to take the valid block b
\* variant: the second block is never taken
AltAdopt_FirstOnly(b, error0, adjacent) == b = 0

AltAdopt(b, error0, adjacent) == b = 0 \/ error0 # OK \/ adjacent

\* the body of the inner for loop of StorageEepromAlternate_Init for the
\* block b of the slot i, addr[b] being the start of the slot in the block
AltInitBlock(st, i, b, addr) ==
  LET s1    == [st EXCEPT !.storage_entry[i].addr[b] = addr]
      check == StorageEepromAlternate_ReadMinimalCheck(s1, i, b, MAX_IMAGE_SIZE - HEADER_SIZE)
      error == IF check.ret < 0 THEN check.ret ELSE OK
      s2    == [s1 EXCEPT !.storage_entry[i].error[b] = error]
  IN  IF error = OK
         /\ AltAdopt(b, s2.storage_entry[i].error[0],
                     AltCounterAdjacent(check.counter, s2.storage_entry[i].counter))
        THEN [s2 EXCEPT !.storage_entry[i].counter = check.counter,
                        !.storage_entry[i].current_block = b]
        ELSE s2

\* the start of the slot i in the block b: the sizes of the slots before it
RECURSIVE AltSlotAddr(_, _)
AltSlotAddr(i, b) ==
  IF i = 0 THEN b * (I2C_EEPROM_SIZE \div 2)
  ELSE AltSlotAddr(i - 1, b) + estimated_image_sizes[i - 1]

RECURSIVE AltInitLoop(_, _)
AltInitLoop(st, i) ==
  IF i >= NR_OF_STORAGES THEN st
  ELSE AltInitLoop(
         AltInitBlock(AltInitBlock(st, i, 0, AltSlotAddr(i, 0)), i, 1, AltSlotAddr(i, 1)),
         i + 1)

StorageEepromAlternate_Init(st) == [AltInitLoop(st, 0) EXCEPT !.is_initialized = TRUE]

\* the result is the returned value and the bytes read to the buffer
StorageEepromAlternate_Read(st, index, size) ==
  IF ~ st.is_initialized THEN [ret |-> STORAGE_NOT_INITIALIZED, data |-> << >>]
  ELSE IF index >= NR_OF_STORAGES THEN [ret |-> INDEX_OUT_OF_BOUNDARY, data |-> << >>]
  ELSE
    LET check == StorageEepromAlternate_ReadMinimalCheck(
                   st, index, st.storage_entry[index].current_block, size)
    IN  [ret |-> check.ret, data |-> check.data]

\* the block StorageEepromAlternate_Write writes to
\* variant: the write goes to the current block
AltWriteBlock_Current(entry) == entry.current_block

AltWriteBlock(entry) == (entry.current_block + 1) % 2

\* the entry of the slot after the write has succeeded
\* variant: the entry is left as it is
AltFlipEntry_Kept(entry, counter, write_block) == entry

AltFlipEntry(entry, counter, write_block) ==
  [entry EXCEPT !.counter = counter, !.current_block = write_block]

\* StorageEepromAlternate_Write(index, data, size), data a sequence of size
\* bytes; the result is the state and the returned error code
\* variant: the entry is flipped as soon as the header has been written
StorageEepromAlternate_Write_EarlyFlip(st, index, data) ==
  IF ~ st.is_initialized THEN [st |-> st, ret |-> STORAGE_NOT_INITIALIZED]
  ELSE IF index >= NR_OF_STORAGES THEN [st |-> st, ret |-> INDEX_OUT_OF_BOUNDARY]
  ELSE IF Len(data) + HEADER_SIZE > estimated_image_sizes[index]
    THEN [st |-> st, ret |-> STORAGE_DATA_TOO_BIG]
  ELSE
    LET entry   == st.storage_entry[index]
        counter == (entry.counter + 1) % 256
        crc     == Crc_Crc32(HeaderTail(Len(data), index, counter), U32_ZERO)
        crc32   == Crc_Crc32(data, crc)
        write_block == AltWriteBlock(entry)
        w1 == StorageI2cEeprom_NvMemWrite(st, entry.addr[write_block],
                U32Bytes(crc32) \o HeaderTail(Len(data), index, counter))
        flipped == [w1.st EXCEPT
                      !.storage_entry[index] = AltFlipEntry(entry, counter, write_block)]
        w2 == StorageI2cEeprom_NvMemWrite(flipped, entry.addr[write_block] + HEADER_SIZE, data)
    IN  IF w1.ret # OK THEN [st |-> w1.st, ret |-> w1.ret]
        ELSE [st |-> w2.st, ret |-> w2.ret]

StorageEepromAlternate_Write(st, index, data) ==
  IF ~ st.is_initialized THEN [st |-> st, ret |-> STORAGE_NOT_INITIALIZED]
  ELSE IF index >= NR_OF_STORAGES THEN [st |-> st, ret |-> INDEX_OUT_OF_BOUNDARY]
  ELSE IF Len(data) + HEADER_SIZE > estimated_image_sizes[index]
    THEN [st |-> st, ret |-> STORAGE_DATA_TOO_BIG]
  ELSE
    LET entry   == st.storage_entry[index]
        counter == (entry.counter + 1) % 256
        crc     == Crc_Crc32(HeaderTail(Len(data), index, counter), U32_ZERO)
        crc32   == Crc_Crc32(data, crc)
        write_block == AltWriteBlock(entry)
        w1 == StorageI2cEeprom_NvMemWrite(st, entry.addr[write_block],
                U32Bytes(crc32) \o HeaderTail(Len(data), index, counter))
        w2 == StorageI2cEeprom_NvMemWrite(w1.st, entry.addr[write_block] + HEADER_SIZE, data)
    IN  IF w1.ret # OK THEN [st |-> w1.st, ret |-> w1.ret]
        ELSE IF w2.ret # OK THEN [st |-> w2.st, ret |-> w2.ret]
        ELSE [st |-> [w2.st EXCEPT
                        !.storage_entry[index] = AltFlipEntry(entry, counter, write_block)],
              ret |-> OK]

\* the error code of a slot with one good and one corrupted image; the
\* Error.h at hand does not list it, it is a code of its own
STORAGE_IMAGE_UNCERTAIN == UNKNOWN_ERROR + 19

\* variant: a failure of one block of whatever kind makes the slot uncertain
StorageEepromAlternate_GetImageVitality_AnyFailure(st, index) ==
  IF st.storage_entry[index].error[0] = OK /\ st.storage_entry[index].error[1] = OK
    THEN OK
  ELSE IF st.storage_entry[index].error[0] # OK /\ st.storage_entry[index].error[1] # OK
    THEN st.storage_entry[index].error[st.storage_entry[index].current_block]
  ELSE STORAGE_IMAGE_UNCERTAIN

StorageEepromAlternate_GetImageVitality(st, index) ==
  IF index >= NR_OF_STORAGES THEN INDEX_OUT_OF_BOUNDARY
  ELSE IF st.storage_entry[index].error[0] = OK /\ st.storage_entry[index].error[1] = OK
    THEN OK
  ELSE IF st.storage_entry[index].error[0] # OK /\ st.storage_entry[index].error[1] # OK
    THEN st.storage_entry[index].error[st.storage_entry[index].current_block]
  ELSE IF st.storage_entry[index].error[0] = OK
    THEN IF st.storage_entry[index].error[1] = STORAGE_CRC_MISMATCH
           THEN STORAGE_IMAGE_UNCERTAIN ELSE OK
    ELSE IF st.storage_entry[index].error[0] = STORAGE_CRC_MISMATCH
           THEN STORAGE_IMAGE_UNCERTAIN ELSE OK

(***************************************************************************)
(* Storage_Eeprom.c: the linear EEPROM backend on the I2C EEPROM.  Every   *)
(* slot has a fixed place of its reserved size.  The state is passed       *)
(* around as a record st with the fields eeprom, Storage_table,            *)
(* is_initialized, fuel and bus (as above) and nvm, the number of calls of *)
(* Storage_NvMemWrite so far.  A header is crc32 (4), size (2), index (1)  *)
(* and one byte of padding, which the code never sets.                     *)
(***************************************************************************)
STORAGE_NVMEM_TOO_SMALL == UNKNOWN_ERROR + 15
STORAGE_START_ADDRESS == 0

StorageI2cEeprom_GetSize == I2C_EEPROM_SIZE

Storage_GetSize == StorageI2cEeprom_GetSize

Storage_NvMemWrite(st, addr, data) ==
  StorageI2cEeprom_NvMemWrite([st EXCEPT !.nvm = st.nvm + 1], addr, data)

Storage_NvMemRead(st, addr, size) == StorageI2cEeprom_NvMemRead(st, addr, size)

\* the for loop of StorageEeprom_Init: the result is the table and addr
RECURSIVE LinInitLoop(_, _, _)
LinInitLoop(table, i, addr) ==
  IF i >= NR_OF_STORAGES THEN [table |-> table, addr |-> addr]
  ELSE LinInitLoop([table EXCEPT ![i].addr = addr % 65536], i + 1, addr + table[i].size)

\* addr > Storage_GetSize()
\* variant: a layout that ends at the end of the device is refused
LinNvMemTooSmall_Exact(addr, nv_size) == addr >= nv_size

LinNvMemTooSmall(addr, nv_size) == addr > nv_size

\* the part of StorageEeprom_Init after the loop
LinInitGate(st, loop) ==
  IF LinNvMemTooSmall(loop.addr, Storage_GetSize)
    THEN [st  |-> [st EXCEPT !.Storage_table = loop.table],
          ret |-> STORAGE_NVMEM_TOO_SMALL]
    ELSE [st  |-> [st EXCEPT !.Storage_table = loop.table, !.is_initialized = TRUE],
          ret |-> OK]

\* the result is the state and the returned error code; Storage_table has
\* NR_OF_STORAGES entries, so STORAGE_ENUM_MISMATCH is not returned
StorageEeprom_Init(st) ==
  LinInitGate(st, LinInitLoop(st.Storage_table, 0, STORAGE_START_ADDRESS))

\* the second Storage_NvMemWrite of StorageEeprom_Write, w being the result
\* of the first one
LinWritePayload(w, addr, data) ==
  IF w.ret # OK THEN w ELSE Storage_NvMemWrite(w.st, addr + HEADER_SIZE, data)

\* StorageEeprom_Write(index, data, size), data a sequence of size bytes,
\* pad the value the padding byte of the local header happens to have; the
\* result is the state and the returned error code
\* variant: the size is not compared with the reserved size of the slot
StorageEeprom_Write_Unchecked(st, index, data, pad) ==
  IF ~ st.is_initialized THEN [st |-> st, ret |-> STORAGE_NOT_INITIALIZED]
  ELSE IF index >= NR_OF_STORAGES THEN [st |-> st, ret |-> INDEX_OUT_OF_BOUNDARY]
  ELSE
    LinWritePayload(
      Storage_NvMemWrite(st, st.Storage_table[index].addr,
        U32Bytes(Crc_Crc32(data, Crc_Crc32(HeaderTail(Len(data), index, pad), U32_ZERO)))
          \o HeaderTail(Len(data), index, pad)),
      st.Storage_table[index].addr, data)

StorageEeprom_Write(st, index, data, pad) ==
  IF ~ st.is_initialized THEN [st |-> st, ret |-> STORAGE_NOT_INITIALIZED]
  ELSE IF index >= NR_OF_STORAGES THEN [st |-> st, ret |-> INDEX_OUT_OF_BOUNDARY]
  ELSE IF Len(data) + HEADER_SIZE > st.Storage_table[index].size
    THEN [st |-> st, ret |-> STORAGE_DATA_TOO_BIG]
  ELSE
    LinWritePayload(
      Storage_NvMemWrite(st, st.Storage_table[index].addr,
        U32Bytes(Crc_Crc32(data, Crc_Crc32(HeaderTail(Len(data), index, pad), U32_ZERO)))
          \o HeaderTail(Len(data), index, pad)),
      st.Storage_table[index].addr, data)

\* header.size > size
\* variant: the size of the buffer is not looked at
LinBufferTooSmall_Never(header_size, size) == FALSE

LinBufferTooSmall(header_size, size) == header_size > size

\* variant: the checksum of the record read is not compared
LinReadCheck_Unchecked(header, dread) ==
  IF dread.ret # OK THEN [ret |-> dread.ret, data |-> << >>, nvm |-> 2]
  ELSE [ret |-> Len(dread.data), data |-> dread.data, nvm |-> 2]

\* the end of StorageEeprom_Read: header is the header read, dread the
\* result of the Storage_NvMemRead of the payload to the buffer of the caller
LinReadCheck(header, dread) ==
  IF dread.ret # OK THEN [ret |-> dread.ret, data |-> << >>, nvm |-> 2]
  ELSE IF SubSeq(header, 1, 4)
            # U32Bytes(Crc_Crc32(dread.data,
                         Crc_Crc32(SubSeq(header, 5, HEADER_SIZE), U32_ZERO)))
    THEN [ret |-> STORAGE_CRC_MISMATCH, data |-> dread.data, nvm |-> 2]
    ELSE [ret |-> Len(dread.data), data |-> dread.data, nvm |-> 2]

\* the part of StorageEeprom_Read after the header has been read
LinReadRecord(st, index, hread, size) ==
  IF hread.ret # OK THEN [ret |-> hread.ret, data |-> << >>, nvm |-> 1]
  ELSE IF hread.data[7] # index
    THEN [ret |-> STORAGE_INDEX_MISMATCH, data |-> << >>, nvm |-> 1]
  ELSE IF LinBufferTooSmall(hread.data[5] + 256 * hread.data[6], size)
    THEN [ret |-> BUFFER_TOO_SMALL, data |-> << >>, nvm |-> 1]
  ELSE LinReadCheck(hread.data,
         Storage_NvMemRead(st, st.Storage_table[index].addr + HEADER_SIZE,
                           hread.data[5] + 256 * hread.data[6]))

\* StorageEeprom_Read(index, data, size): the result is the returned value
\* (a size or an error code), the bytes read to the buffer of the caller and
\* the number of calls of Storage_NvMemRead
StorageEeprom_Read(st, index, size) ==
  IF ~ st.is_initialized
    THEN [ret |-> STORAGE_NOT_INITIALIZED, data |-> << >>, nvm |-> 0]
  ELSE IF index >= NR_OF_STORAGES
    THEN [ret |-> INDEX_OUT_OF_BOUNDARY, data |-> << >>, nvm |-> 0]
  ELSE LinReadRecord(st, index,
         Storage_NvMemRead(st, st.Storage_table[index].addr, HEADER_SIZE), size)

(***************************************************************************)
(* The flash backend as a state machine.                                   *)
(***************************************************************************)
VARIABLES
  mem,             \* TARGET_NV_MEM: the bytes of the two flash pages
  headers,         \* StorageFlash_Data.headers
  pages_info,      \* StorageFlash_Data.pages_info
  active_page,     \* StorageFlash_Data.active_page
  is_initialized,  \* StorageFlash_Data.is_initialized
  lastOp,          \* history: the last call, what it returned, whether the
                   \* power lasted to its last flash operation (complete) and
                   \* whether it moved the live record of another slot (moved),
                   \* the generation of the slot's live record before and after
  reads,           \* what StorageFlash_Read returns for each slot in this state
  fits,            \* history: every write so far left room for all latest records
  nWrites,         \* history: number of calls of StorageFlash_Write
  nRestarts,       \* history: number of clean restarts
  nPowerLoss,      \* history: number of power losses
  eeprom,          \* the bytes of the I2C EEPROM
  storage_entry,   \* StorageEepromAlternate_data.storage_entry
  alt_is_initialized, \* StorageEepromAlternate_data.is_initialized
  altOp,           \* history: the last call on the alternating backend, what
                   \* it returned, the bytes it wrote before it was
                   \* interrupted (written) and whether its record is entirely
                   \* in the EEPROM (inplace)
  altReads,        \* what StorageEepromAlternate_Read returns for each slot
  completed,       \* history: per slot the payload of the last write that
                   \* returned OK
  interrupted,     \* history: per slot the payload of the last write that
                   \* a power loss interrupted and whose record is entirely
                   \* in the EEPROM, if no write has returned OK since
  lastWritten,     \* history: per slot the block and the generation of the
                   \* last write that returned OK, and how many writes
                   \* have returned OK (nth: 0, 1, 2 for two or more)
  wrapped,         \* history: per slot, the generation counter has wrapped
  nAltWrites,      \* history: number of calls of StorageEepromAlternate_Write
  nAltPowerLoss,   \* history: number of power losses
  nAltBusErrors,   \* history: number of calls ended by an I2C error
  nWarmUp          \* history: number of writes before the first power loss

flashVars == << mem, headers, pages_info, active_page, is_initialized >>
histVars == << lastOp, reads, fits, nWrites, nRestarts, nPowerLoss >>
altVars == << eeprom, storage_entry, alt_is_initialized >>
altHistVars == << altOp, altReads, completed, interrupted, lastWritten, wrapped,
                 nAltWrites, nAltPowerLoss, nAltBusErrors, nWarmUp >>

VARIABLES
  lin_eeprom,      \* the bytes of the I2C EEPROM of the linear backend
  Storage_table,   \* Storage_table of Storage_Eeprom.c
  lin_is_initialized, \* StorageEeprom_data.is_initialized
  linOp,           \* history: the last call on the linear backend, what it
                   \* returned, its calls of Storage_NvMemWrite (nvm), whether
                   \* the backend was initialized before it (initialized)
                   \* and whether it left the EEPROM as it was (same)
  linReads,        \* what StorageEeprom_Read returns for each slot
  linLatest,       \* history: per slot the payload of the last write that
                   \* returned OK
  linInitRet,      \* history: what StorageEeprom_Init returned, NULL before
  nLinWrites,      \* history: number of calls of StorageEeprom_Write
  everWritten,     \* history: per slot, a StorageFlash_Write to it has
                   \* written its record and returned OK
  tampered         \* history: the record a bit of which was changed behind
                   \* the back of the backend, and the size of its payload

linVars == << lin_eeprom, Storage_table, lin_is_initialized >>
linHistVars == << linOp, linReads, linLatest, linInitRet, nLinWrites >>
vars == << flashVars, histVars, altVars, altHistVars, linVars, linHistVars,
           everWritten, tampered >>

\* lengths of the long and of the medium payload of the model
BigLen == 17
MidLen == 5
BigPayload == [k \in 1 .. BigLen |-> 1 + ((k + 1) % 2)]
MidPayload == [k \in 1 .. MidLen |-> 1]
\* the payloads the client writes to each slot
FlashPayloads(id) ==
  IF id = 0 THEN { << >>, << 1 >>, << 2 >> }
  ELSE IF id = 1 THEN { << 2 >>, BigPayload }
  ELSE { << >>, MidPayload }
\* the payloads the client writes in the runs with power losses
TearPayloads(id) ==
  IF id = 0 THEN { << 1 >>, << 2 >> }
  ELSE IF id = 1 THEN { << 1 >> }
  ELSE { }

\* the module state and the memory as one record, the power staying on
FlashState ==
  [mem |-> mem, headers |-> headers, pages_info |-> pages_info,
   active_page |-> active_page, is_initialized |-> is_initialized, fuel |-> -1,
   erased |-> [page \in Pages |-> 0]]

\* the module state after a reset (zero-initialised RAM) over the memory m
ResetState(m) ==
  [mem |-> m,
   headers |-> [i \in StorageIds |-> NULL],
   pages_info |-> [page \in Pages |-> [address |-> 0, status |-> PAGE_UNINITIALIZED]],
   active_page |-> 0, is_initialized |-> FALSE, fuel |-> -1,
   erased |-> [page \in Pages |-> 0]]

\* a read buffer large enough for every payload a page can hold
ReadBufferSize == NV_MEM_PAGE_INFO_ADDR

\* what StorageFlash_Read returns for each slot in the state st
ReadsIn(st) == [j \in StorageIds |-> StorageFlash_Read(st, j, ReadBufferSize)]

SetFlashState(st) ==
  /\ \E r \in { ReadsIn(st) } : reads' = r
  /\ mem' = st.mem
  /\ headers' = st.headers
  /\ pages_info' = st.pages_info
  /\ active_page' = st.active_page
  /\ is_initialized' = st.is_initialized

\* what StorageFlash_Read returns for a slot in the current state
ReadOf(j) == StorageFlash_Read(FlashState, j, ReadBufferSize)

\* the generation counter of the live record of each slot
CountersIn(st) ==
  [j \in StorageIds |-> IF st.headers[j] = NULL THEN NULL
                        ELSE HeaderCounter(st.mem, st.headers[j])]

\* header plus payload rounded to the write granularity
Footprint(size) == HEADER_SIZE + StorageFlash_GetSizeRoundedToFlashBlock(size)

RECURSIVE LatestFootprints(_, _)
LatestFootprints(st, i) ==
  IF i >= NR_OF_STORAGES THEN 0
  ELSE (IF st.headers[i] = NULL THEN 0
        ELSE Footprint(HeaderSizeField(st.mem, st.headers[i])))
       + LatestFootprints(st, i + 1)

\* the latest records of all slots and the record being written fit in a page
FitsOnePage(st, size) ==
  LatestFootprints(st, 0) + Footprint(size) <= NV_MEM_PAGE_INFO_ADDR

NoSlot == NR_OF_STORAGES

FlashInit ==
  /\ \E st \in { StorageFlash_Init(ResetState([a \in MemAddrs |-> EMPTY_BYTE])) } :
       /\ mem = st.mem
       /\ headers = st.headers
       /\ pages_info = st.pages_info
       /\ active_page = st.active_page
       /\ is_initialized = st.is_initialized
       /\ reads = ReadsIn(st)
  /\ lastOp = [kind |-> "init", slot |-> NoSlot, data |-> << >>, ret |-> OK,
               complete |-> TRUE, moved |-> FALSE,
               counterBefore |-> NULL, counter |-> NULL]
  /\ fits = TRUE
  /\ nWrites = 0
  /\ nRestarts = 0
  /\ nPowerLoss = 0
  /\ everWritten = [i \in StorageIds |-> FALSE]

\* the client calls StorageFlash_Write and the call returns
FlashWrite(id, data) ==
  /\ nWrites < MaxWrites
  /\ \E r \in { StorageFlash_Write(FlashState, id, data) } :
         /\ SetFlashState(r.st)
         /\ lastOp' = [kind |-> "write", slot |-> id, data |-> data,
                       ret |-> r.ret, complete |-> TRUE,
                       moved |-> \E j \in StorageIds \ {id} :
                                   r.st.headers[j] # headers[j],
                       counterBefore |-> CountersIn(FlashState)[id],
                       counter |-> CountersIn(r.st)[id]]
         /\ everWritten' = [everWritten EXCEPT ![id] = @ \/ r.ret = OK]
  /\ fits' = (fits /\ FitsOnePage(FlashState, Len(data)))
  /\ nWrites' = nWrites + 1
  /\ UNCHANGED << nRestarts, nPowerLoss, altVars, altHistVars, linVars, linHistVars, tampered >>

\* the device is restarted between two calls and runs StorageFlash_Init
FlashRestart ==
  /\ nRestarts < MaxRestarts
  /\ \E st \in { StorageFlash_Init(ResetState(mem)) } : SetFlashState(st)
  /\ lastOp' = [kind |-> "restart", slot |-> NoSlot, data |-> << >>,
                ret |-> OK, complete |-> TRUE, moved |-> FALSE,
                counterBefore |-> NULL, counter |-> NULL]
  /\ nRestarts' = nRestarts + 1
  /\ UNCHANGED << fits, nWrites, nPowerLoss, everWritten, altVars, altHistVars, linVars, linHistVars, tampered >>

\* the number of flash operations of a call of StorageFlash_Write
FlashOpsOfWrite(st, id, data) == (-1) - StorageFlash_Write(st, id, data).st.fuel

\* the power is lost after n flash operations of a call of StorageFlash_Write
\* (n = all of them: after the last one, before the call returns); the device
\* then restarts and runs StorageFlash_Init
FlashPowerLoss(id, data) ==
  /\ nPowerLoss < MaxPowerLoss
  /\ \E n \in 0 .. FlashOpsOfWrite(FlashState, id, data) :
     \E r \in { StorageFlash_Write([FlashState EXCEPT !.fuel = n], id, data) } :
           /\ \E st \in { StorageFlash_Init(ResetState(r.st.mem)) } : SetFlashState(st)
           /\ lastOp' = [kind |-> "powerloss", slot |-> id, data |-> data,
                         ret |-> OK,
                         complete |-> (n = FlashOpsOfWrite(FlashState, id, data)),
                         moved |-> FALSE, counterBefore |-> NULL, counter |-> NULL]
  /\ fits' = (fits /\ FitsOnePage(FlashState, Len(data)))
  /\ nPowerLoss' = nPowerLoss + 1
  /\ UNCHANGED << nWrites, nRestarts, everWritten, altVars, altHistVars, linVars, linHistVars, tampered >>

Next ==
  \/ \E id \in StorageIds : \E data \in FlashPayloads(id) : FlashWrite(id, data)
  \/ FlashRestart

TearNext ==
  \/ \E id \in StorageIds : \E data \in TearPayloads(id) :
       nWrites < TearMaxWrites /\ FlashWrite(id, data)
  \/ \E id \in StorageIds : \E data \in TearPayloads(id) : FlashPowerLoss(id, data)


(***************************************************************************)
(* The alternating EEPROM backend as a state machine.                      *)
(***************************************************************************)
\* the payloads the client writes to each slot: two short ones to the first
\* slot, the empty and the longest one to the second, the empty one to the
\* third, which has no room reserved
AltFullPayload == [k \in 1 .. (estimated_image_sizes[1] - HEADER_SIZE) |-> 3]
AltPayloads(i) ==
  IF i = 0 THEN { << 1 >>, << 2 >> }
  ELSE IF i = 1 THEN { << >>, AltFullPayload }
  ELSE { << >> }
AltTearPayloads(i) ==
  IF i = 0 THEN { << 1 >>, << 2 >> }
  ELSE IF i = 1 THEN { << 3 >> }
  ELSE { }

NoPayload == << NULL >>

AltState ==
  [eeprom |-> eeprom, storage_entry |-> storage_entry,
   is_initialized |-> alt_is_initialized, fuel |-> -1, bus |-> -1,
   glitch |-> BusDown, tries |-> << >>]

\* the module state after a reset (zero-initialised RAM) over the EEPROM e
\* variant: the second block is the current one after a reset
AltResetState_SecondBlock(e) ==
  [eeprom |-> e,
   storage_entry |-> [i \in StorageIds |->
                        [addr |-> [b \in Blocks |-> 0], error |-> [b \in Blocks |-> OK],
                         current_block |-> 1, counter |-> 0]],
   is_initialized |-> FALSE, fuel |-> -1, bus |-> -1,
   glitch |-> BusDown, tries |-> << >>]

AltResetState(e) ==
  [eeprom |-> e,
   storage_entry |-> [i \in StorageIds |->
                        [addr |-> [b \in Blocks |-> 0], error |-> [b \in Blocks |-> OK],
                         current_block |-> 0, counter |-> 0]],
   is_initialized |-> FALSE, fuel |-> -1, bus |-> -1,
   glitch |-> BusDown, tries |-> << >>]

\* a read buffer large enough for every payload a slot can hold
AltReadBufferSize == MAX_IMAGE_SIZE - HEADER_SIZE

AltReadsIn(st) ==
  [j \in StorageIds |-> StorageEepromAlternate_Read(st, j, AltReadBufferSize)]

SetAltState(st) ==
  /\ \E r \in { AltReadsIn(st) } : altReads' = r
  /\ eeprom' = st.eeprom
  /\ storage_entry' = st.storage_entry
  /\ alt_is_initialized' = st.is_initialized

\* what Read is to return for the payload data
ReadOk(data) == [ret |-> Len(data), data |-> data]

\* the EEPROM is blank and StorageEepromAlternate_Init has run
AltInit ==
  /\ \E st \in { StorageEepromAlternate_Init(
                    AltResetState([a \in EepromAddrs |-> EMPTY_BYTE])) } :
       /\ eeprom = st.eeprom
       /\ storage_entry = st.storage_entry
       /\ alt_is_initialized = st.is_initialized
       /\ altReads = AltReadsIn(st)
  /\ lastWritten = [i \in StorageIds |-> [block |-> NULL, counter |-> NULL, nth |-> 0]]
  /\ altOp = [kind |-> "init", slot |-> NoSlot, data |-> << >>, ret |-> OK,
              written |-> 0, inplace |-> FALSE]
  /\ completed = [i \in StorageIds |-> NoPayload]
  /\ interrupted = [i \in StorageIds |-> NoPayload]
  /\ wrapped = [i \in StorageIds |-> FALSE]
  /\ nAltWrites = 0
  /\ nAltPowerLoss = 0
  /\ nAltBusErrors = 0
  /\ nWarmUp = 0

(***************************************************************************)
(* The linear EEPROM backend as a state machine.  Storage_table holds the  *)
(* image sizes of the configuration; they are 0 where the configuration    *)
(* does not set them, as in the firmware image the run starts from.        *)
(***************************************************************************)
LinState ==
  [eeprom |-> lin_eeprom, Storage_table |-> Storage_table,
   is_initialized |-> lin_is_initialized, fuel |-> -1, bus |-> -1,
   glitch |-> BusDown, tries |-> << >>, nvm |-> 0]

\* the read buffer of the runs of the linear backend: larger than every
\* payload they write and than a few sizes a changed bit makes of them
LinReadBufferSize == 40

LinReadsIn(st) == [j \in StorageIds |-> StorageEeprom_Read(st, j, LinReadBufferSize)]

SetLinState(st) ==
  /\ \E r \in { LinReadsIn(st) } : linReads' = r
  /\ lin_eeprom' = st.eeprom
  /\ Storage_table' = st.Storage_table
  /\ lin_is_initialized' = st.is_initialized

\* the Storage_table of a configuration with the image sizes sizes
LinTable(sizes) == [i \in StorageIds |-> [size |-> sizes[i + 1], addr |-> 0]]

NoTamper ==
  [backend |-> "none", slot |-> NoSlot, size |-> 0, field |-> "none", stored |-> 0]

LinInit ==
  /\ lin_eeprom = [a \in EepromAddrs |-> EMPTY_BYTE]
  /\ Storage_table = LinTable(<< ESTL_STORAGE_ADAPTIVE_DATA_IMAGE_SIZE,
                                 ESTL_STORAGE_ADAPTIVE_DATA_IMAGE_SIZE,
                                 ESTL_STORAGE_ADAPTIVE_DATA_IMAGE_SIZE >>)
  /\ lin_is_initialized = FALSE
  /\ linOp = [kind |-> "load", slot |-> NoSlot, data |-> << >>, ret |-> OK,
              nvm |-> 0, initialized |-> FALSE, same |-> TRUE]
  /\ linReads = [j \in StorageIds |->
                   [ret |-> STORAGE_NOT_INITIALIZED, data |-> << >>, nvm |-> 0]]
  /\ linLatest = [i \in StorageIds |-> NoPayload]
  /\ linInitRet = NULL
  /\ nLinWrites = 0

Init == FlashInit /\ AltInit /\ LinInit /\ tampered = NoTamper

\* the flash backend with clean restarts
Spec == Init /\ [][Next]_vars

\* the flash backend with power losses
SpecTear == Init /\ [][TearNext]_vars

\* the client calls StorageEepromAlternate_Write and the call returns
AltWriteCall(i, data) ==
  \E r \in { StorageEepromAlternate_Write(AltState, i, data) } :
      /\ SetAltState(r.st)
      /\ altOp' = [kind |-> "write", slot |-> i, data |-> data, ret |-> r.ret,
                   written |-> (-1) - r.st.fuel, inplace |-> r.ret = OK]
      /\ completed' = IF r.ret = OK THEN [completed EXCEPT ![i] = data] ELSE completed
      /\ interrupted' = IF r.ret = OK THEN [interrupted EXCEPT ![i] = NoPayload]
                        ELSE interrupted
      /\ lastWritten' = IF r.ret = OK
                          THEN [lastWritten EXCEPT
                                  ![i] = [block |-> r.st.storage_entry[i].current_block,
                                          counter |-> r.st.storage_entry[i].counter,
                                          nth |-> IF lastWritten[i].nth < 2
                                                    THEN lastWritten[i].nth + 1 ELSE 2]]
                          ELSE lastWritten
      /\ wrapped' = IF r.ret = OK /\ r.st.storage_entry[i].counter = 0
                      THEN [wrapped EXCEPT ![i] = TRUE] ELSE wrapped
      /\ UNCHANGED << linVars, linHistVars, tampered, everWritten, flashVars, histVars, nAltPowerLoss, nAltBusErrors >>

\* writes in a run that takes the first slot through all generations and
\* MaxGenAfterWrap generations further; the other slots are written, for
\* their first generations, once the counter of the first slot has wrapped
AltWrite(i, data) ==
  /\ i = 0 => (wrapped[0] => storage_entry[0].counter < MaxGenAfterWrap)
  /\ i # 0 => (wrapped[0] /\ storage_entry[i].counter < MaxOtherGen)
  /\ AltWriteCall(i, data)
  /\ UNCHANGED << nAltWrites, nWarmUp >>

\* power losses and I2C errors happen on a blank EEPROM or after
\* AltStartWrites writes to the first slot
AltTearPhase ==
  /\ nWarmUp = 0 \/ nWarmUp = AltStartWrites
  /\ nAltWrites + nAltPowerLoss + nAltBusErrors < AltTearMaxOps

\* a write to the first slot before the part of the run with power losses
\* and I2C errors, the two payloads of the slot taking turns
AltWarmUpWrite ==
  /\ nWarmUp < AltStartWrites
  /\ nAltWrites = 0 /\ nAltPowerLoss = 0 /\ nAltBusErrors = 0
  /\ AltWriteCall(0, << 1 + (nWarmUp % 2) >>)
  /\ nWarmUp' = nWarmUp + 1
  /\ UNCHANGED nAltWrites

\* writes in a run with power losses and I2C errors
AltTearWrite(i, data) ==
  /\ AltTearPhase
  /\ AltWriteCall(i, data)
  /\ nAltWrites' = nAltWrites + 1
  /\ UNCHANGED nWarmUp

\* the device is restarted between two calls and runs
\* StorageEepromAlternate_Init
AltRestart ==
  /\ \E st \in { StorageEepromAlternate_Init(AltResetState(eeprom)) } : SetAltState(st)
  /\ altOp' = [kind |-> "restart", slot |-> NoSlot, data |-> << >>, ret |-> OK,
               written |-> 0, inplace |-> FALSE]
  /\ UNCHANGED << linVars, linHistVars, tampered, everWritten, flashVars, histVars, completed, interrupted, lastWritten, wrapped,
                  nAltWrites, nAltPowerLoss, nAltBusErrors, nWarmUp >>

\* the EEPROM after the call of StorageEepromAlternate_Write has run to its end
AltEepromAfterWrite(i, data) == StorageEepromAlternate_Write(AltState, i, data).st.eeprom

\* the number of bytes a call of StorageEepromAlternate_Write sends to the EEPROM
AltBytesOfWrite(i, data) == (-1) - StorageEepromAlternate_Write(AltState, i, data).st.fuel

\* the number of I2C write transfers of a call of StorageEepromAlternate_Write
AltTransfersOfWrite(i, data) == (-1) - StorageEepromAlternate_Write(AltState, i, data).st.bus

\* the power is lost after n bytes of a call of StorageEepromAlternate_Write
\* have reached the EEPROM (n = all of them: after the last one, before the
\* call returns; n = 0: before the first one); the device then restarts and
\* runs StorageEepromAlternate_Init
AltPowerLoss(i, data) ==
  /\ AltTearPhase
  /\ nAltPowerLoss < MaxAltPowerLoss
  /\ \E n \in 0 .. AltBytesOfWrite(i, data) :
     \E r \in { StorageEepromAlternate_Write([AltState EXCEPT !.fuel = n], i, data) } :
       LET inplace == n > 0 /\ r.st.eeprom = AltEepromAfterWrite(i, data)
       IN  /\ \E st \in { StorageEepromAlternate_Init(AltResetState(r.st.eeprom)) } :
                SetAltState(st)
           /\ altOp' = [kind |-> "powerloss", slot |-> i, data |-> data, ret |-> OK,
                        written |-> n, inplace |-> inplace]
           /\ interrupted' = IF inplace THEN [interrupted EXCEPT ![i] = data]
                             ELSE interrupted
  /\ nAltPowerLoss' = nAltPowerLoss + 1
  /\ UNCHANGED << linVars, linHistVars, tampered, everWritten, flashVars, histVars, completed, lastWritten, wrapped,
                  nAltWrites, nAltBusErrors, nWarmUp >>

\* the I2C bus fails after n transfers of a call of
\* StorageEepromAlternate_Write, which returns the error of the transfer
AltBusError(i, data) ==
  /\ AltTearPhase
  /\ nAltBusErrors < MaxAltBusErrors
  /\ \E n \in 0 .. (AltTransfersOfWrite(i, data) - 1) :
     \E r \in { StorageEepromAlternate_Write([AltState EXCEPT !.bus = n], i, data) } :
       LET inplace == n > 0 /\ r.st.eeprom = AltEepromAfterWrite(i, data)
       IN  /\ SetAltState([r.st EXCEPT !.bus = -1])
           /\ altOp' = [kind |-> "buserror", slot |-> i, data |-> data, ret |-> r.ret,
                        written |-> (-1) - r.st.fuel, inplace |-> inplace]
  /\ nAltBusErrors' = nAltBusErrors + 1
  /\ UNCHANGED << linVars, linHistVars, tampered, everWritten, flashVars, histVars, completed, interrupted, lastWritten, wrapped,
                  nAltWrites, nAltPowerLoss, nWarmUp >>

AltNext ==
  \/ \E i \in StorageIds : \E data \in AltPayloads(i) : AltWrite(i, data)
  \/ AltRestart

\* the alternating backend with clean restarts
SpecAlt == Init /\ [][AltNext]_vars

AltTearNext ==
  \/ AltWarmUpWrite
  \/ \E i \in StorageIds : \E data \in AltTearPayloads(i) : AltTearWrite(i, data)
  \/ \E i \in StorageIds : \E data \in AltTearPayloads(i) : AltPowerLoss(i, data)

\* the alternating backend with power losses
SpecAltTear == Init /\ [][AltTearNext]_vars

AltErrNext ==
  \/ AltWarmUpWrite
  \/ \E i \in StorageIds : \E data \in AltTearPayloads(i) : AltTearWrite(i, data)
  \/ \E i \in StorageIds : \E data \in AltTearPayloads(i) : AltBusError(i, data)
  \/ AltTearPhase /\ AltRestart

\* the alternating backend with I2C errors
SpecAltErr == Init /\ [][AltErrNext]_vars

(***************************************************************************)
(* The runs of the linear EEPROM backend.                                  *)
(***************************************************************************)
\* what is left of the EEPROM for the second slot, the first and the third
\* one having the configured sizes of the parameter and application images
LinRest ==
  I2C_EEPROM_SIZE - STORAGE_START_ADDRESS - ParameterImageSize - ApplicationImageSize

\* the configurations: the second slot holds a header only, or the slots end
\* one byte before, at, or one byte after the end of the EEPROM
LinLayouts ==
  { << ParameterImageSize, r, ApplicationImageSize >> :
      r \in { HEADER_SIZE, LinRest - 1, LinRest, LinRest + 1 } }

LinFill(n) == [k \in 1 .. n |-> 3]

\* the payloads the client writes to the first and the third slot: the
\* longest one that fits, the shortest one that does not, and two short ones
\* for the first slot; to the second slot: the empty one and one of a byte
LinPayloads(i) ==
  IF i = 1 THEN { << >>, << 4 >> }
  ELSE { LinFill(n) : n \in { m \in { Storage_table[i].size - HEADER_SIZE,
                                      Storage_table[i].size - HEADER_SIZE + 1 } : m >= 0 } }
       \cup (IF i = 0 THEN { << 1 >>, << 2 >> } ELSE { })

\* the values the padding byte of the header on the stack can have
PaddingBytes == { 0, EMPTY_BYTE }

\* the firmware is built with a configuration and loaded
LinConfigure(sizes) ==
  /\ linOp.kind = "load"
  /\ Storage_table' = LinTable(sizes)
  /\ linOp' = [linOp EXCEPT !.kind = "reset"]
  /\ UNCHANGED << lin_eeprom, lin_is_initialized, linReads, linLatest, linInitRet,
                  nLinWrites, everWritten, tampered,
                  flashVars, histVars, altVars, altHistVars >>

\* the firmware calls StorageEeprom_Init
LinInitCall ==
  /\ linOp.kind # "load"
  /\ linInitRet = NULL
  /\ \E r \in { StorageEeprom_Init(LinState) } :
       /\ SetLinState(r.st)
       /\ linInitRet' = r.ret
       /\ linOp' = [kind |-> "init", slot |-> NoSlot, data |-> << >>, ret |-> r.ret,
                    nvm |-> r.st.nvm, initialized |-> lin_is_initialized,
                    same |-> r.st.eeprom = lin_eeprom]
  /\ UNCHANGED << linLatest, nLinWrites, everWritten, tampered,
                  flashVars, histVars, altVars, altHistVars >>

\* the client calls StorageEeprom_Write and the call returns
LinWrite(i, data, pad) ==
  /\ linOp.kind # "load"
  /\ nLinWrites < MaxLinWrites
  /\ \E r \in { StorageEeprom_Write(LinState, i, data, pad) } :
       /\ SetLinState(r.st)
       /\ linOp' = [kind |-> "write", slot |-> i, data |-> data, ret |-> r.ret,
                    nvm |-> r.st.nvm, initialized |-> lin_is_initialized,
                    same |-> r.st.eeprom = lin_eeprom]
       /\ linLatest' = IF r.ret = OK THEN [linLatest EXCEPT ![i] = data] ELSE linLatest
  /\ nLinWrites' = nLinWrites + 1
  /\ UNCHANGED << linInitRet, everWritten, tampered,
                  flashVars, histVars, altVars, altHistVars >>

LinNext ==
  \/ \E sizes \in LinLayouts : LinConfigure(sizes)
  \/ LinInitCall
  \/ \E i \in StorageIds : \E data \in LinPayloads(i) : \E pad \in PaddingBytes :
       LinWrite(i, data, pad)

\* the linear backend
SpecLin == Init /\ [][LinNext]_vars

(***************************************************************************)
(* The firmware is built with one of the three backends: a run is a run of *)
(* the flash backend, of the alternating or of the linear EEPROM backend.  *)
(***************************************************************************)
FlashIdle == lastOp.kind = "init"
AltIdle == altOp.kind = "init"
LinIdle == linOp.kind = "load"

BackendNext ==
  \/ AltIdle /\ LinIdle /\ Next
  \/ FlashIdle /\ LinIdle /\ AltNext
  \/ FlashIdle /\ AltIdle /\ LinNext

SpecBackends == Init /\ [][BackendNext]_vars

(***************************************************************************)
(* A bit of a stored record changes behind the back of the backend: one    *)
(* bit of one byte of the live record of a slot, outside the crc32 field.  *)
(***************************************************************************)
\* the values of the bits of a byte
BitValues == { 1, 2, 4, 8, 16, 32, 64, 128 }

FlipBit(byte, w) == IF Bit(byte, w) = 1 THEN byte - w ELSE byte + w

\* the offsets in a record with a payload of size bytes after the crc32 field
TamperOffsets(size) == 4 .. (HEADER_SIZE + size - 1)

\* the field of the header at the offset k, last being the name of the
\* last byte of the header of the backend
FieldAt(k, last) ==
  IF k < 6 THEN "size" ELSE IF k = 6 THEN "index" ELSE IF k = 7 THEN last ELSE "payload"

\* the size field of a header in the EEPROM at the address a
EepromSizeField(e, a) == e[a + 4] + 256 * e[a + 5]

FlashTamper(j, k, w) ==
  /\ tampered = NoTamper
  /\ reads[j].ret >= 0
  /\ \E st \in { [FlashState EXCEPT
                     !.mem[headers[j] + k] = FlipBit(mem[headers[j] + k], w)] } :
       /\ SetFlashState(st)
       /\ tampered' = [backend |-> "flash", slot |-> j, size |-> reads[j].ret,
                       field |-> FieldAt(k, "generation"),
                       stored |-> HeaderSizeField(st.mem, headers[j])]
  /\ lastOp' = [lastOp EXCEPT !.kind = "tamper"]
  /\ UNCHANGED << fits, nWrites, nRestarts, nPowerLoss, everWritten,
                  altVars, altHistVars, linVars, linHistVars >>

\* the address of the current block of the slot j in the EEPROM
AltRecordAddr(j) == storage_entry[j].addr[storage_entry[j].current_block]

AltTamper(j, k, w) ==
  /\ tampered = NoTamper
  /\ altReads[j].ret >= 0
  /\ \E st \in { [AltState EXCEPT
                     !.eeprom[AltRecordAddr(j) + k] =
                        FlipBit(eeprom[AltRecordAddr(j) + k], w)] } :
       /\ SetAltState(st)
       /\ tampered' = [backend |-> "alternating", slot |-> j, size |-> altReads[j].ret,
                       field |-> FieldAt(k, "generation"),
                       stored |-> EepromSizeField(st.eeprom, AltRecordAddr(j))]
  /\ altOp' = [altOp EXCEPT !.kind = "tamper"]
  /\ UNCHANGED << completed, interrupted, lastWritten, wrapped, nAltWrites,
                  nAltPowerLoss, nAltBusErrors, nWarmUp, everWritten,
                  flashVars, histVars, linVars, linHistVars >>

LinTamper(j, k, w) ==
  /\ tampered = NoTamper
  /\ linReads[j].ret >= 0
  /\ \E st \in { [LinState EXCEPT
                     !.eeprom[Storage_table[j].addr + k] =
                        FlipBit(lin_eeprom[Storage_table[j].addr + k], w)] } :
       /\ SetLinState(st)
       /\ tampered' = [backend |-> "linear", slot |-> j, size |-> linReads[j].ret,
                       field |-> FieldAt(k, "padding"),
                       stored |-> EepromSizeField(st.eeprom, Storage_table[j].addr)]
  /\ linOp' = [linOp EXCEPT !.kind = "tamper"]
  /\ UNCHANGED << linLatest, linInitRet, nLinWrites, everWritten,
                  flashVars, histVars, altVars, altHistVars >>

\* a few writes of one backend, then the change of a bit, then nothing
TamperNext ==
  \/ /\ tampered = NoTamper /\ AltIdle /\ LinIdle /\ nWrites < TamperMaxWrites
     /\ \E id \in StorageIds : \E data \in TearPayloads(id) : FlashWrite(id, data)
  \/ \E j \in StorageIds : \E k \in TamperOffsets(reads[j].ret) : \E w \in BitValues :
       FlashTamper(j, k, w)
  \/ /\ tampered = NoTamper /\ FlashIdle /\ LinIdle /\ nAltWrites < TamperMaxWrites
     /\ \E i \in StorageIds : \E data \in AltTearPayloads(i) : AltTearWrite(i, data)
  \/ \E j \in StorageIds : \E k \in TamperOffsets(altReads[j].ret) : \E w \in BitValues :
       AltTamper(j, k, w)
  \/ /\ tampered = NoTamper /\ FlashIdle /\ AltIdle
     /\ \/ \E sizes \in LinLayouts : LinConfigure(sizes)
        \/ LinInitCall
        \/ /\ nLinWrites < TamperMaxWrites
           /\ \E i \in StorageIds : \E data \in LinPayloads(i) :
                \E pad \in PaddingBytes : LinWrite(i, data, pad)
  \/ \E j \in StorageIds : \E k \in TamperOffsets(linReads[j].ret) : \E w \in BitValues :
       LinTamper(j, k, w)

SpecTamper == Init /\ [][TamperNext]_vars

(***************************************************************************)
(* Properties of the flash backend.                                        *)
(***************************************************************************)
\* a successful write of the last step, to whatever slot
WroteOk == lastOp.kind = "write" /\ lastOp.ret = OK

\* C1: after a StorageFlash_Write that returned OK, StorageFlash_Read of the
\* slot with a large enough buffer returns the size and the bytes written,
\* whatever the slot held before.
C1_FlashRoundTrip ==
  WroteOk => ReadOf(lastOp.slot) = [ret |-> Len(lastOp.data), data |-> lastOp.data]

\* C2: without restart or power loss, and as long as the latest records of
\* all slots and the record being written fit in one page, a successful
\* write to a slot leaves what StorageFlash_Read returns for every other
\* slot unchanged, page switch, migration and erase included.
C2_WriteKeepsOtherSlots ==
  [][ (WroteOk' /\ nRestarts' = 0 /\ nPowerLoss' = 0 /\ fits')
        => \A j \in StorageIds \ {lastOp'.slot} : reads'[j] = reads[j] ]_vars

\* C2 happens: a successful write within the precondition has migrated the
\* live record of another slot, which is still readable
C2_Witness ==
  /\ WroteOk /\ nRestarts = 0 /\ nPowerLoss = 0 /\ fits
  /\ lastOp.moved
  /\ \E j \in StorageIds \ {lastOp.slot} : ReadOf(j).ret > 0

\* C3: with clean restarts and writes that keep to the one-page precondition,
\* neither a restart nor a write changes what StorageFlash_Read returns for a
\* slot other than the one written, and no readable slot stops being readable.
C3_RestartsKeepData ==
  [][ (nPowerLoss' = 0 /\ fits' /\ (WroteOk' \/ lastOp'.kind = "restart"))
        => /\ \A j \in StorageIds \ {lastOp'.slot} : reads'[j] = reads[j]
           /\ \A j \in StorageIds : reads[j].ret >= 0 => reads'[j].ret >= 0 ]_vars

\* C4: after successful writes only, StorageFlash_Init after a restart
\* rebuilds the live-record pointer of every slot and the append offset of
\* both pages as they were in RAM before the restart.
C4_InitRebuildsIndex ==
  [][ (lastOp'.kind = "restart" /\ nPowerLoss' = 0)
        => /\ headers' = headers
           /\ \A page \in Pages : pages_info'[page].address = pages_info[page].address ]_vars

\* C5: when the power is lost at any step of StorageFlash_Write and the
\* device restarts, every slot that was readable before the write reads as
\* before, or, the slot being written, reads the new payload if the append
\* had finished.
C5_TearSafety ==
  [][ lastOp'.kind = "powerloss"
        => \A j \in StorageIds :
             reads[j].ret >= 0
               => \/ reads'[j] = reads[j]
                  \/ /\ j = lastOp'.slot
                     /\ lastOp'.complete
                     /\ reads'[j] = [ret |-> Len(lastOp'.data), data |-> lastOp'.data] ]_vars

\* C6: a StorageFlash_Write of the bytes the slot already holds returns OK
\* and leaves the slot's generation counter, its live-record pointer and the
\* append offsets of both pages unchanged.
C6_IdempotentWrite ==
  [][ (lastOp'.kind = "write"
         /\ reads[lastOp'.slot] = [ret |-> Len(lastOp'.data), data |-> lastOp'.data])
        => /\ lastOp'.ret = OK
           /\ headers'[lastOp'.slot] = headers[lastOp'.slot]
           /\ lastOp'.counter = lastOp'.counterBefore
           /\ \A page \in Pages : pages_info'[page].address = pages_info[page].address ]_vars


(***************************************************************************)
(* Properties of the alternating EEPROM backend.                           *)
(***************************************************************************)
\* C7: when a call of StorageEepromAlternate_Write ends with the error of an
\* I2C transfer, whatever it has written to the other block before,
\* current_block and counter of the slot are as before and
\* StorageEepromAlternate_Read returns for the slot what it returned before.
C7_AltErrorKeepsPrevious ==
  [][ altOp'.kind = "buserror"
        => /\ altOp'.ret # OK
           /\ storage_entry'[altOp'.slot].current_block
                = storage_entry[altOp'.slot].current_block
           /\ storage_entry'[altOp'.slot].counter = storage_entry[altOp'.slot].counter
           /\ altReads'[altOp'.slot] = altReads[altOp'.slot] ]_vars

\* C7 happens: the call has written a part of the record, and the slot still
\* reads the payload of the write completed before
C7_Witness ==
  /\ altOp.kind = "buserror" /\ altOp.written > 0
  /\ completed[altOp.slot] # NoPayload
  /\ altOp.data # completed[altOp.slot]
  /\ altReads[altOp.slot] = ReadOk(completed[altOp.slot])

C9_AltInitPicksNewest ==
  altOp.kind = "restart"
    => \A i \in StorageIds :
         (storage_entry[i].error[0] = OK /\ storage_entry[i].error[1] = OK)
           => /\ storage_entry[i].current_block = lastWritten[i].block
              /\ storage_entry[i].counter = lastWritten[i].counter

\* C9 happens: the counter has wrapped, the first block holds generation 0
\* and the second one generation 255
C9_Witness ==
  /\ altOp.kind = "restart" /\ wrapped[0]
  /\ storage_entry[0].error[0] = OK /\ storage_entry[0].error[1] = OK
  /\ storage_entry[0].counter = 0 /\ storage_entry[0].current_block = 0

\* C10: after a StorageEepromAlternate_Write that returned OK,
\* StorageEepromAlternate_Read of the slot returns the size and the bytes
\* written, with the largest buffer and with one of just the size.
C10_AltRoundTrip ==
  (altOp.kind = "write" /\ altOp.ret = OK)
    => /\ altReads[altOp.slot] = ReadOk(altOp.data)
       /\ StorageEepromAlternate_Read(AltState, altOp.slot, Len(altOp.data))
            = ReadOk(altOp.data)

\* C10 happens: the write is one after more than 256 earlier writes to the slot
C10_Witness ==
  /\ altOp.kind = "write" /\ altOp.ret = OK /\ altOp.slot = 0
  /\ wrapped[0] /\ storage_entry[0].counter = 1
  /\ altReads[0].ret = Len(altOp.data)


\* the record a live-record pointer refers to is entirely below the page
\* info, its checksum matches and it is a record of the slot
LiveRecordIsDurable(j) ==
  /\ StorageFlash_RecordIsValid(mem, StorageFlash_HeaderGetPage(headers[j]),
                                StorageFlash_HeaderGetAddress(headers[j]))
  /\ HeaderIndex(mem, headers[j]) = j

\* C15: in every reachable state of the flash backend every live-record
\* pointer that is not NULL refers to a complete record of its slot with a
\* matching checksum that is in the flash.
C15_RamIndexDurable ==
  \A j \in StorageIds : headers[j] # NULL => LiveRecordIsDurable(j)

\* C16: StorageFlash_Read returns STORAGE_DATA_UNAVAILABLE for a slot if and
\* only if no write to the slot has ever completed; on erased flash every
\* slot returns it.
C16_FlashDataUnavailable ==
  \A j \in StorageIds :
    (reads[j].ret = STORAGE_DATA_UNAVAILABLE) = (~ everWritten[j])

\* the end of the record a live-record pointer refers to, rounded up to the
\* write granularity
LiveRecordEnd(st, j) ==
  StorageFlash_HeaderGetAddress(st.headers[j]) + HEADER_SIZE
    + StorageFlash_GetSizeRoundedToFlashBlock(HeaderSizeField(st.mem, st.headers[j]))

\* the live records of the slots i and j do not overlap
LiveRecordsApart(st, i, j) ==
  \/ st.headers[i] = NULL \/ st.headers[j] = NULL
  \/ StorageFlash_HeaderGetPage(st.headers[i]) # StorageFlash_HeaderGetPage(st.headers[j])
  \/ st.headers[i] + HEADER_SIZE + HeaderSizeField(st.mem, st.headers[i]) <= st.headers[j]
  \/ st.headers[j] + HEADER_SIZE + HeaderSizeField(st.mem, st.headers[j]) <= st.headers[i]

\* the slots whose live record is in the page
LiveIn(st, page) ==
  { j \in StorageIds : StorageFlash_HeaderGetPage(st.headers[j]) = page }

\* C19: when StorageFlash_PrepareAffectedPages renews a corrupted active
\* page, then for every slot whose live record was in the page the read
\* returns the same payload as before and the pointer of the slot points
\* into the page, the records do not overlap, and the append offset of the
\* page is the end of the last record rounded up to the write granularity.
C19_RenewKeepsRecords ==
  pages_info[active_page].status = PAGE_IS_CORRUPTED =>
    LET st == PrepareRenew(FlashState)
    IN  /\ \A j \in LiveIn(FlashState, active_page) :
             /\ StorageFlash_Read(st, j, ReadBufferSize) = reads[j]
             /\ StorageFlash_HeaderGetPage(st.headers[j]) = active_page
             /\ st.pages_info[active_page].address >= LiveRecordEnd(st, j)
        /\ \A i, j \in StorageIds : i # j => LiveRecordsApart(st, i, j)
        /\ \/ LiveIn(FlashState, active_page) = { }
           \/ \E j \in LiveIn(FlashState, active_page) :
                st.pages_info[active_page].address = LiveRecordEnd(st, j)

\* C20: in every reachable state the append offset of each page is at most
\* the offset of the page info, every live record lies entirely below the
\* page info, and no two records of a page overlap.
C20_AppendStaysInPage ==
  /\ \A page \in Pages : pages_info[page].address <= NV_MEM_PAGE_INFO_ADDR
  /\ \A j \in StorageIds :
       headers[j] # NULL =>
         StorageFlash_HeaderGetAddress(headers[j]) + HEADER_SIZE
           + HeaderSizeField(mem, headers[j]) <= NV_MEM_PAGE_INFO_ADDR
  /\ \A i, j \in StorageIds : i # j => LiveRecordsApart(FlashState, i, j)

(***************************************************************************)
(* Properties of the linear EEPROM backend.                                *)
(***************************************************************************)
\* the last step was a call of StorageEeprom_Write on the initialized backend
LinWrote == linOp.kind = "write" /\ linOp.initialized

\* C11: once StorageEeprom_Init has returned OK, a write of a payload with
\* size + sizeof(header) <= reserved size succeeds, and a read of a slot
\* with a buffer of at least the size of the payload written last to it
\* returns that size and that payload, whatever was written to other slots
\* since.
C11_LinRoundTrip ==
  linInitRet = OK =>
    /\ (LinWrote /\ Len(linOp.data) + HEADER_SIZE <= Storage_table[linOp.slot].size)
         => linOp.ret = OK
    /\ \A i \in StorageIds :
         linLatest[i] # NoPayload =>
           \A n \in { Len(linLatest[i]), LinReadBufferSize } :
             LET r == StorageEeprom_Read(LinState, i, n)
             IN  r.ret = Len(linLatest[i]) /\ r.data = linLatest[i]

\* C12: in every layout StorageEeprom_Init accepts, a write of
\* size = reserved size - sizeof(header) returns OK and is readable, and a
\* write of one byte more returns STORAGE_DATA_TOO_BIG and writes nothing.
C12_LinCapacityBoundary ==
  (linInitRet = OK /\ LinWrote) =>
    /\ Len(linOp.data) = Storage_table[linOp.slot].size - HEADER_SIZE
         => /\ linOp.ret = OK
            /\ linReads[linOp.slot].ret = Len(linOp.data)
            /\ linReads[linOp.slot].data = linOp.data
    /\ Len(linOp.data) = Storage_table[linOp.slot].size - HEADER_SIZE + 1
         => /\ linOp.ret = STORAGE_DATA_TOO_BIG
            /\ linOp.nvm = 0
            /\ linOp.same

\* the reserved sizes of all slots, from the start address on
LinReservedEnd ==
  STORAGE_START_ADDRESS
    + Storage_table[0].size + Storage_table[1].size + Storage_table[2].size

AltAfterInit == altOp.kind \in { "init", "restart", "powerloss" }

\* what the check of the block b of the slot i returns in this state
AltBlockCheck(i, b) ==
  StorageEepromAlternate_ReadMinimalCheck(AltState, i, b, MAX_IMAGE_SIZE - HEADER_SIZE).ret

\* the block b of the slot i validates
AltBlockValidates(i, b) == AltBlockCheck(i, b) >= 0

TooSmallFor(s) == (-1) .. (s - 1)

\* C17: in each backend the read of a slot that holds a valid record of a
\* payload of s bytes returns BUFFER_TOO_SMALL and leaves the buffer as it
\* is if the buffer has less than s bytes, and it returns s and the payload
\* if the buffer has s bytes.
C17_BufferSizeCheck ==
  \A j \in StorageIds :
    /\ reads[j].ret >= 0 =>
         /\ \A n \in TooSmallFor(reads[j].ret) :
              StorageFlash_Read(FlashState, j, n)
                = [ret |-> BUFFER_TOO_SMALL, data |-> << >>]
         /\ StorageFlash_Read(FlashState, j, reads[j].ret) = reads[j]
    /\ altReads[j].ret >= 0 =>
         /\ \A n \in TooSmallFor(altReads[j].ret) :
              StorageEepromAlternate_Read(AltState, j, n)
                = [ret |-> BUFFER_TOO_SMALL, data |-> << >>]
         /\ StorageEepromAlternate_Read(AltState, j, altReads[j].ret) = altReads[j]
    /\ linReads[j].ret >= 0 =>
         /\ \A n \in TooSmallFor(linReads[j].ret) :
              StorageEeprom_Read(LinState, j, n)
                = [ret |-> BUFFER_TOO_SMALL, data |-> << >>, nvm |-> 1]
         /\ StorageEeprom_Read(LinState, j, linReads[j].ret) = linReads[j]

\* a slot of the linear backend holds a record with a payload that is not
\* empty, and the read with a buffer one byte shorter refuses it
C17_Witness ==
  \E j \in StorageIds :
    /\ linReads[j].ret > 0
    /\ StorageEeprom_Read(LinState, j, linReads[j].ret - 1).ret = BUFFER_TOO_SMALL

\* what the read of the slot the record of which was changed returns, for a
\* buffer of n bytes
TamperedRead(n) ==
  IF tampered.backend = "flash" THEN StorageFlash_Read(FlashState, tampered.slot, n).ret
  ELSE IF tampered.backend = "alternating"
    THEN StorageEepromAlternate_Read(AltState, tampered.slot, n).ret
    ELSE StorageEeprom_Read(LinState, tampered.slot, n).ret

\* the sizes of the buffer: that of the payload written and the largest one
\* the run of the backend reads with
TamperBuffers ==
  { tampered.size,
    IF tampered.backend = "flash" THEN ReadBufferSize
    ELSE IF tampered.backend = "alternating" THEN AltReadBufferSize
    ELSE LinReadBufferSize }

PageEmptyFrom(m, page, a) ==
  \A k \in a .. (NV_MEM_PAGE_INFO_ADDR - 1) : m[PagePtr(page, k)] = EMPTY_BYTE

\* a step of a call of StorageFlash_Write that returned and changed the
\* active page
SwitchStep == lastOp'.kind = "write" /\ active_page' # active_page

\* what a call that has just switched to the page p leaves there: nothing,
\* or its record at the start of the page and nothing behind it
FreshPage(m, info, hdrs, id, size, p) ==
  /\ info[p].status = PAGE_IS_VALID
  /\ \/ info[p].address = 0
     \/ /\ hdrs[id] = PagePtr(p, 0)
        /\ info[p].address = HEADER_SIZE + StorageFlash_GetSizeRoundedToFlashBlock(size)
  /\ PageEmptyFrom(m, p, info[p].address)

\* C21: one of the pages is the active one; a call of StorageFlash_Write
\* changes the active page only if the header and the payload of its record
\* do not fit behind the append offset of the active page, and the page it
\* changes to is erased, with the append offset 0 and the status
\* PAGE_IS_VALID, when the call changes to it.
C21_SwitchDiscipline ==
  [][/\ active_page' \in Pages
     /\ lastOp'.kind = "write" /\ lastOp'.ret # OK => active_page' = active_page
     /\ SwitchStep =>
          /\ NV_MEM_PAGE_INFO_ADDR
               < pages_info'[active_page].address + HEADER_SIZE + Len(lastOp'.data)
          /\ FreshPage(mem', pages_info', headers', lastOp'.slot,
                       Len(lastOp'.data), active_page')]_vars

\* a write has put its record at the start of the page it has made the
\* active one; the page that was active still holds records
C21_Witness ==
  /\ lastOp.kind = "write"
  /\ headers[lastOp.slot] = PagePtr(active_page, 0)
  /\ pages_info[1 - active_page].address > 0
  /\ nRestarts = 0

\* C22: a clean restart after writes that returned OK leaves the active page
\* what it was whenever a page holds data: StorageFlash_Init selects the page
\* that was active before the restart.
C22_RestartKeepsActivePage ==
  [][(/\ lastOp'.kind = "restart"
      /\ \E p \in Pages : pages_info[p].address > 0)
       => active_page' = active_page]_vars

\* the state is the one StorageFlash_Init has left
AfterFlashInit == lastOp.kind \in { "init", "restart", "powerloss" }

\* the page starts with a valid record: the scan of StorageFlash_Init finds
\* records in it
PageHoldsRecords(page) == StorageFlash_RecordIsValid(mem, page, 0)

\* C23: StorageFlash_Init selects page 0 when the scan of both pages ends at
\* offset 0, the page whose scan ends at the smaller offset when both pages
\* hold records, and the page that holds records when only one does.
C23_InitSelectsActivePage ==
  AfterFlashInit =>
    /\ \A p \in Pages : PageHoldsRecords(p) = (pages_info[p].address > 0)
    /\ IF \A p \in Pages : ~ PageHoldsRecords(p) THEN active_page = 0
       ELSE IF \A p \in Pages : PageHoldsRecords(p)
         THEN /\ pages_info[active_page].address <= pages_info[1 - active_page].address
              /\ pages_info[0].address < pages_info[1].address => active_page = 0
       ELSE PageHoldsRecords(active_page)

\* StorageFlash_Init has found records in both pages, fewer in the second
C23_Witness ==
  /\ lastOp.kind = "restart"
  /\ pages_info[0].address > pages_info[1].address
  /\ pages_info[1].address > 0
  /\ active_page = 1

\* the statuses StorageFlash_Init gives to a page
InitStatuses == { PAGE_IS_VALID, PAGE_IS_CORRUPTED }

\* C24: after StorageFlash_Init every page is PAGE_IS_VALID or
\* PAGE_IS_CORRUPTED, so that StorageFlash_Write never returns UNKNOWN_ERROR;
\* a page becomes PAGE_IS_CORRUPTED only in StorageFlash_Init; and after a
\* write that has passed its argument checks and prepared the pages both
\* pages are PAGE_IS_VALID, until the next StorageFlash_Init.
C24_PageStateMachine ==
  [][/\ \A p \in Pages : pages_info'[p].status \in InitStatuses
     /\ lastOp'.kind = "write" =>
          /\ lastOp'.ret # UNKNOWN_ERROR
          /\ \A p \in Pages : pages_info'[p].status = PAGE_IS_VALID
     /\ \A p \in Pages :
          (/\ pages_info'[p].status = PAGE_IS_CORRUPTED
           /\ pages_info[p].status # PAGE_IS_CORRUPTED)
            => lastOp'.kind \in { "restart", "powerloss" }]_vars

\* a write has returned after a power loss, and the page preparation of a
\* write has erased the active page since the flash was blank
C24_Witness ==
  /\ lastOp.kind = "write"
  /\ nPowerLoss > 0
  /\ mem[PagePtr(active_page, NV_MEM_PAGE_INFO_ADDR)] # EMPTY_BYTE
  /\ \A p \in Pages : pages_info[p].status = PAGE_IS_VALID

\* writes, the change of a bit of a stored record and clean restarts: the
\* pages StorageFlash_Init scans hold an invalid record before valid ones
ScanNext ==
  \/ /\ AltIdle /\ LinIdle /\ nWrites < TearMaxWrites
     /\ \E id \in StorageIds : \E data \in TearPayloads(id) : FlashWrite(id, data)
  \/ \E j \in StorageIds : \E k \in TamperOffsets(reads[j].ret) : \E w \in BitValues :
       FlashTamper(j, k, w)
  \/ FlashRestart

SpecScan == Init /\ [][ScanNext]_vars

\* the end of the records of a page that are valid one after the other,
\* from the address a on
RECURSIVE ValidPrefixEnd(_, _, _)
ValidPrefixEnd(m, page, a) ==
  IF a < NV_MEM_PAGE_INFO_ADDR /\ StorageFlash_RecordIsValid(m, page, a)
    THEN ValidPrefixEnd(m, page, a + Footprint(HeaderSizeField(m, PagePtr(page, a))))
    ELSE a

\* C25: StorageFlash_Init marks a page PAGE_IS_CORRUPTED if and only if a
\* cell between the end of the last of its records that are valid one after
\* the other and the page info is not erased; else the page is
\* PAGE_IS_VALID; the append offset is the end of that record, and no record
\* behind the first invalid one is in the index.
C25_InitClassifiesPages ==
  AfterFlashInit =>
    /\ \A p \in Pages :
         /\ pages_info[p].address = ValidPrefixEnd(mem, p, 0)
         /\ pages_info[p].status =
              IF PageEmptyFrom(mem, p, ValidPrefixEnd(mem, p, 0))
                THEN PAGE_IS_VALID ELSE PAGE_IS_CORRUPTED
    /\ \A j \in StorageIds :
         headers[j] # NULL =>
           StorageFlash_HeaderGetAddress(headers[j])
             < ValidPrefixEnd(mem, StorageFlash_HeaderGetPage(headers[j]), 0)

\* StorageFlash_Init has scanned a page whose first record is invalid and
\* whose second record is valid: the page is corrupted and the second record
\* is not in the index
C25_Witness ==
  /\ lastOp.kind = "restart"
  /\ ~ StorageFlash_RecordIsValid(mem, 0, 0)
  /\ StorageFlash_RecordIsValid(mem, 0, Footprint(1))
  /\ pages_info[0] = [address |-> 0, status |-> PAGE_IS_CORRUPTED]
  /\ \A j \in StorageIds : headers[j] = NULL

\* the generation that follows the one of the live record of the slot j in
\* the state st: 0 for the first record of the slot
NextGeneration(st, j) ==
  IF st.headers[j] = NULL THEN 0 ELSE (CountersIn(st)[j] + 1) % 256

\* the addresses of the valid records of the slot j in the page, m being
\* the bytes of the flash
ValidRecordsOf(m, j, page) ==
  { a \in 0 .. (NV_MEM_PAGE_INFO_ADDR - 1) :
      /\ a % BYTES_PER_FLASH_BLOCK = 0
      /\ StorageFlash_RecordIsValid(m, page, a)
      /\ HeaderIndex(m, PagePtr(page, a)) = j }

\* the generation g is the one of c or a later one, the counter wrapping
NotOlder(g, c) == (g - c + 256) % 256 <= 127

\* the live record of the slot j is a valid record of the slot and none of
\* the valid records of the slot in the two pages is of a later generation
NewestIsIndexed(m, hdrs, j) ==
  /\ StorageFlash_HeaderGetAddress(hdrs[j])
       \in ValidRecordsOf(m, j, StorageFlash_HeaderGetPage(hdrs[j]))
  /\ \A page \in Pages : \A a \in ValidRecordsOf(m, j, page) :
       NotOlder(HeaderCounter(m, hdrs[j]), HeaderCounter(m, PagePtr(page, a)))

\* the records a call of StorageFlash_Write appends, prepared being the
\* state after its StorageFlash_PrepareAffectedPages and after the state
\* when it returns, carry the next generation of their slots
AppendsStep(before, prepared, after, id) ==
  /\ \A j \in StorageIds :
       prepared.headers[j] # before.headers[j] =>
         CountersIn(prepared)[j] = NextGeneration(before, j)
  /\ after.headers[id] # prepared.headers[id] =>
       CountersIn(after)[id] = NextGeneration(prepared, id)

\* C26: a record that a migration or StorageFlash_Write appends for a slot
\* carries the generation of the live record of the slot before it plus
\* one, modulo 256, and 0 if the slot had none; in every state the index
\* entry of a slot points to the valid record of the slot with the highest
\* generation, the counter wrapping, of those in the two pages.
C26_GenerationStepping ==
  [][\E after \in { [mem |-> mem', headers |-> headers'] } :
       /\ lastOp'.kind = "write" /\ lastOp'.ret = OK =>
            AppendsStep(FlashState,
                        StorageFlash_PrepareAffectedPages(FlashState, Len(lastOp'.data)),
                        after, lastOp'.slot)
       /\ \A j \in StorageIds :
            after.headers[j] # NULL => NewestIsIndexed(after.mem, after.headers, j)]_vars

(***************************************************************************)
(* Calls of StorageFlash_Write that the argument checks refuse: before     *)
(* StorageFlash_Init, for a slot that does not exist, with a payload that  *)
(* no page can take.                                                       *)
(***************************************************************************)
\* the longest payload a page takes and the shortest one it does not take
ExactPayload == [k \in 1 .. (NV_MEM_PAGE_INFO_ADDR - HEADER_SIZE) |-> 1 + (k % 2)]
OversizePayload == [k \in 1 .. (NV_MEM_PAGE_INFO_ADDR - HEADER_SIZE + 1) |-> 1 + (k % 2)]

RejectPayloads(id) ==
  IF id = 0 THEN { << 1 >>, ExactPayload, OversizePayload }
  ELSE IF id = 1 THEN { << 2 >>, OversizePayload }
  ELSE { }

\* storage_id_t values that are no slot
NoSlots == { NR_OF_STORAGES, 255 }

\* the device is reset and the client has not called StorageFlash_Init yet
FlashReset ==
  /\ nRestarts < MaxRestarts
  /\ is_initialized
  /\ SetFlashState(ResetState(mem))
  /\ lastOp' = [kind |-> "reset", slot |-> NoSlot, data |-> << >>,
                ret |-> OK, complete |-> TRUE, moved |-> FALSE,
                counterBefore |-> NULL, counter |-> NULL]
  /\ nRestarts' = nRestarts + 1
  /\ UNCHANGED << fits, nWrites, nPowerLoss, everWritten, altVars, altHistVars,
                  linVars, linHistVars, tampered >>

\* the client calls StorageFlash_Init after a reset
FlashInitCall ==
  /\ ~ is_initialized
  /\ \E st \in { StorageFlash_Init(FlashState) } : SetFlashState(st)
  /\ lastOp' = [kind |-> "restart", slot |-> NoSlot, data |-> << >>,
                ret |-> OK, complete |-> TRUE, moved |-> FALSE,
                counterBefore |-> NULL, counter |-> NULL]
  /\ UNCHANGED << fits, nWrites, nRestarts, nPowerLoss, everWritten, altVars,
                  altHistVars, linVars, linHistVars, tampered >>

\* the client calls StorageFlash_Write for a slot that does not exist
FlashWriteNoSlot(id, data) ==
  /\ nWrites < MaxWrites
  /\ \E r \in { StorageFlash_Write(FlashState, id, data) } :
       /\ SetFlashState(r.st)
       /\ lastOp' = [kind |-> "write", slot |-> id, data |-> data,
                     ret |-> r.ret, complete |-> TRUE, moved |-> FALSE,
                     counterBefore |-> NULL, counter |-> NULL]
  /\ nWrites' = nWrites + 1
  /\ UNCHANGED << fits, nRestarts, nPowerLoss, everWritten, altVars, altHistVars,
                  linVars, linHistVars, tampered >>

RejectNext ==
  \/ \E id \in StorageIds : \E data \in RejectPayloads(id) : FlashWrite(id, data)
  \/ \E id \in NoSlots : FlashWriteNoSlot(id, << 1 >>)
  \/ FlashReset
  \/ FlashInitCall

SpecReject == Init /\ [][RejectNext]_vars

\* the error codes of the argument checks of StorageFlash_Write
RejectCodes ==
  { STORAGE_NOT_INITIALIZED, INDEX_OUT_OF_BOUNDARY, STORAGE_DATA_TOO_BIG }

\* C27: StorageFlash_Write returns STORAGE_NOT_INITIALIZED before
\* StorageFlash_Init, INDEX_OUT_OF_BOUNDARY for a slot that does not exist
\* and STORAGE_DATA_TOO_BIG when the header and the payload are larger than
\* the usable part of a page; in each case the flash, the index, the append
\* offsets, the page statuses and the active page are left as they were; a
\* payload that fills the usable part of a page with its header is accepted.
C27_RejectedWrites ==
  [][lastOp'.kind = "write" =>
       /\ lastOp'.ret =
            IF ~ is_initialized THEN STORAGE_NOT_INITIALIZED
            ELSE IF lastOp'.slot \notin StorageIds THEN INDEX_OUT_OF_BOUNDARY
            ELSE IF HEADER_SIZE + Len(lastOp'.data) > NV_MEM_PAGE_INFO_ADDR
              THEN STORAGE_DATA_TOO_BIG
            ELSE OK
       /\ lastOp'.ret \in RejectCodes => UNCHANGED flashVars]_vars

\* a payload that no page can take has been refused after the page was
\* filled by one that fits exactly
C27_Witness ==
  /\ lastOp.kind = "write"
  /\ lastOp.ret = STORAGE_DATA_TOO_BIG
  /\ \E p \in Pages : pages_info[p].address = NV_MEM_PAGE_INFO_ADDR

(***************************************************************************)
(* The order of the steps of StorageEepromAlternate_Write.                 *)
(***************************************************************************)
\* the record StorageEepromAlternate_Write sends for the slot i with the
\* entry of the slot before the call: the header with the generation after
\* the one of the entry, then the payload
AltRecordOf(entry, i, data) ==
  LET counter == (entry.counter + 1) % 256
      tail    == HeaderTail(Len(data), i, counter)
  IN  U32Bytes(Crc_Crc32(data, Crc_Crc32(tail, U32_ZERO))) \o tail \o data

\* the bytes of the half of the EEPROM that makes up the block b
AltBlockAddrs(b) ==
  { a \in EepromAddrs : a \div (I2C_EEPROM_SIZE \div 2) = b }

\* the EEPROM after is the EEPROM before with the first n bytes of the
\* record rec stored from the address base on, and nothing else changed
AltPrefixStored(before, after, base, rec, n) ==
  \A a \in EepromAddrs :
    after[a] = IF a >= base /\ a < base + n THEN rec[a - base + 1] ELSE before[a]

\* a call of StorageEepromAlternate_Write for the slot i that has sent
\* op.written bytes, from the EEPROM and the entry before to those after
AltWriteOrdering(before, entry, op, after, after_entry) ==
  LET other == 1 - entry.current_block
      rec   == AltRecordOf(entry, op.slot, op.data)
  IN  /\ \A a \in AltBlockAddrs(entry.current_block) : after[a] = before[a]
      /\ op.written <= Len(rec)
      /\ AltPrefixStored(before, after, entry.addr[other], rec, op.written)
      /\ op.kind = "write" /\ op.ret = OK =>
           /\ op.written = Len(rec)
           /\ after_entry = [entry EXCEPT !.current_block = other,
                                          !.counter = (entry.counter + 1) % 256]
      /\ op.kind # "powerloss" /\ op.ret # OK =>
           /\ op.written < Len(rec)
           /\ after_entry = entry

\* C28: StorageEepromAlternate_Write never changes a byte of the block that
\* is current for the slot; what it sends to the other block is the header
\* with the generation counter + 1 (mod 256), then the payload, in this
\* order; current_block and counter change only when both raw writes have
\* returned OK, and then to the other block and the next generation.
C28_AltWriteOrdering ==
  [][altOp'.kind \in { "write", "buserror", "powerloss" } =>
       AltWriteOrdering(eeprom, storage_entry[altOp'.slot], altOp',
                        eeprom', storage_entry'[altOp'.slot])]_vars

\* C28 happens: the header of the next generation is in the other block,
\* the raw write of the payload has failed, and the entry is as before
C28_Witness ==
  /\ altOp.kind = "buserror" /\ altOp.ret # OK /\ altOp.written = HEADER_SIZE
  /\ nWarmUp = AltStartWrites
  /\ LET entry == storage_entry[altOp.slot]
     IN  /\ MemBytes(eeprom, entry.addr[1 - entry.current_block] + 4, 4)
              = HeaderTail(Len(altOp.data), altOp.slot, (entry.counter + 1) % 256)
         /\ AltBlockValidates(altOp.slot, entry.current_block)

(***************************************************************************)
(* The two generations of a slot of the alternating backend.               *)
(***************************************************************************)
\* the generation counter in the header of the block b of the slot i
AltBlockCounter(i, b) ==
  StorageEepromAlternate_ReadMinimalCheck(AltState, i, b, MAX_IMAGE_SIZE - HEADER_SIZE).counter

\* both blocks of the slot i hold valid records of the slot, the current
\* block the generation of the entry, the other block the one before it
AltTwoGenerations(i) ==
  LET entry == storage_entry[i]
  IN  /\ \A b \in Blocks : AltBlockValidates(i, b)
      /\ AltBlockCounter(i, entry.current_block) = entry.counter
      /\ AltBlockCounter(i, 1 - entry.current_block) = (entry.counter + 255) % 256

\* C29: in a run without failures, once two or more writes to a slot have
\* returned OK, both blocks of the slot hold valid records of the slot, the
\* current block with the generation g of the counter in RAM, the other
\* block with the generation g - 1 mod 256.
C29_AltTwoGenerations ==
  \A i \in StorageIds : lastWritten[i].nth = 2 => AltTwoGenerations(i)

\* C29 happens: the counter has wrapped, the device has restarted, and the
\* blocks hold the generations 0 and 255; the second slot has been written
\* twice as well
C29_Witness ==
  /\ altOp.kind = "restart"
  /\ lastWritten[0].nth = 2 /\ lastWritten[1].nth = 2
  /\ storage_entry[0].counter = 0
  /\ AltBlockCounter(0, storage_entry[0].current_block) = 0
  /\ AltBlockCounter(0, 1 - storage_entry[0].current_block) = 255
  /\ AltBlockValidates(1, 0) /\ AltBlockValidates(1, 1)

(***************************************************************************)
(* The parity of blocks and generations of the alternating backend.        *)
(***************************************************************************)
\* C30: on a device that started with no valid block, through
\* StorageEepromAlternate_Init, writes, power losses and restarts, every
\* valid record in the block b of a slot has a generation counter with
\* counter mod 2 = b, and the entry in RAM has current_block = counter mod 2.
C30_AltBlockCounterParity ==
  \A i \in StorageIds :
    /\ \A b \in Blocks : AltBlockValidates(i, b) => AltBlockCounter(i, b) % 2 = b
    /\ storage_entry[i].current_block = storage_entry[i].counter % 2

\* C30 happens: after the wrap of the counter a power loss has interrupted
\* a write, the first block holds the generation 0 and the second block a
\* valid record, and StorageEepromAlternate_Init has run
C30_Witness ==
  /\ altOp.kind = "powerloss" /\ altOp.slot = 0 /\ altOp.written > 0
  /\ nWarmUp = AltStartWrites
  /\ AltBlockValidates(0, 0) /\ AltBlockCounter(0, 0) = 0
  /\ AltBlockValidates(0, 1)
  /\ storage_entry[0].current_block = storage_entry[0].counter % 2

(***************************************************************************)
(* Writes of the linear EEPROM backend that do not run to their end.       *)
(***************************************************************************)
\* the payloads of the runs with interrupted writes
LinTearPayloads(i) ==
  IF i = 0 THEN { << 1 >>, << 1, 2 >> }
  ELSE IF i = 1 THEN { << 4 >> }
  ELSE { << 3 >> }

\* the number of bytes a call of StorageEeprom_Write sends to the EEPROM
LinBytesOfWrite(i, data, pad) == (-1) - StorageEeprom_Write(LinState, i, data, pad).st.fuel

\* the number of I2C write transfers of a call of StorageEeprom_Write
LinTransfersOfWrite(i, data, pad) == (-1) - StorageEeprom_Write(LinState, i, data, pad).st.bus

\* the module state after a reset over the EEPROM e: the table as in the
\* firmware image, the backend not initialized
LinResetState(e) ==
  [eeprom |-> e,
   Storage_table |-> [i \in StorageIds |-> [Storage_table[i] EXCEPT !.addr = 0]],
   is_initialized |-> FALSE, fuel |-> -1, bus |-> -1,
   glitch |-> BusDown, tries |-> << >>, nvm |-> 0]

\* no write has been interrupted yet
LinNotTorn == linOp.kind \in { "init", "write" }

\* a write that returns, in a run with interrupted writes
LinTearWrite(i, data, pad) ==
  /\ LinNotTorn
  /\ nLinWrites < LinTearWrites
  /\ LinWrite(i, data, pad)

\* the power is lost after n bytes of a call of StorageEeprom_Write have
\* reached the EEPROM (n = all of them: after the last one, before the call
\* returns); the device then restarts and runs StorageEeprom_Init; the
\* field nvm of linOp holds n
LinPowerLoss(i, data, pad) ==
  /\ LinNotTorn
  /\ \E n \in 1 .. LinBytesOfWrite(i, data, pad) :
     \E r \in { StorageEeprom_Write([LinState EXCEPT !.fuel = n], i, data, pad) } :
     \E init \in { StorageEeprom_Init(LinResetState(r.st.eeprom)) } :
       /\ SetLinState(init.st)
       /\ linInitRet' = init.ret
       /\ linOp' = [kind |-> "powerloss", slot |-> i, data |-> data, ret |-> OK,
                    nvm |-> n, initialized |-> lin_is_initialized,
                    same |-> r.st.eeprom = lin_eeprom]
  /\ nLinWrites' = nLinWrites + 1
  /\ UNCHANGED << linLatest, everWritten, tampered,
                  flashVars, histVars, altVars, altHistVars >>

\* the I2C bus fails from the transfer n of a call of StorageEeprom_Write
\* on, n = 0 being the first transfer of the header; the call returns the
\* error of Storage_NvMemWrite; the field nvm of linOp holds n
LinBusError(i, data, pad) ==
  /\ LinNotTorn
  /\ \E n \in 0 .. (LinTransfersOfWrite(i, data, pad) - 1) :
     \E r \in { StorageEeprom_Write([LinState EXCEPT !.bus = n], i, data, pad) } :
       /\ SetLinState([r.st EXCEPT !.bus = -1])
       /\ linOp' = [kind |-> "buserror", slot |-> i, data |-> data, ret |-> r.ret,
                    nvm |-> n, initialized |-> lin_is_initialized,
                    same |-> r.st.eeprom = lin_eeprom]
  /\ nLinWrites' = nLinWrites + 1
  /\ UNCHANGED << linInitRet, linLatest, everWritten, tampered,
                  flashVars, histVars, altVars, altHistVars >>

LinTearNext ==
  \/ \E sizes \in LinLayouts : LinConfigure(sizes)
  \/ LinInitCall
  \/ \E i \in StorageIds : \E data \in LinTearPayloads(i) : \E pad \in PaddingBytes :
       LinTearWrite(i, data, pad)
  \/ \E i \in StorageIds : \E data \in LinTearPayloads(i) : \E pad \in PaddingBytes :
       LinPowerLoss(i, data, pad)
  \/ \E i \in StorageIds : \E data \in LinTearPayloads(i) : \E pad \in PaddingBytes :
       LinBusError(i, data, pad)

\* the linear backend with power losses and I2C errors
SpecLinTear == Init /\ [][LinTearNext]_vars

\* a call of StorageEeprom_Write has been cut off in this step
LinCutOff == linOp'.kind \in { "powerloss", "buserror" }

\* the read of the slot returns the whole payload data
LinReadsAll(read, data) == read.ret = Len(data) /\ read.data = data

\* the reads of the slots other than i are the same in before and after
LinOthersSame(before, after, i) ==
  \A j \in StorageIds \ { i } : after[j] = before[j]

\* C31 as stated: after a StorageEeprom_Write cut off by a power loss or by
\* the error of a raw write, the read of the slot returns an error code or
\* the whole new payload, and the reads of the other slots are as before.
C31_LinTornDetected ==
  [][LinCutOff =>
       /\ linReads'[linOp'.slot].ret < 0
            \/ LinReadsAll(linReads'[linOp'.slot], linOp'.data)
       /\ LinOthersSame(linReads, linReads', linOp'.slot)]_vars

\* C31, amended: after a StorageEeprom_Write cut off by a power loss or by
\* the error of a raw write, the read of the slot returns an error code or
\* the whole new payload or, when the bytes that reached the EEPROM have
\* changed nothing in it, what it returned before the call; the reads of
\* the other slots are as before.
C31_LinTornDetectedOrUntouched ==
  [][LinCutOff =>
       /\ \/ linReads'[linOp'.slot].ret < 0
          \/ LinReadsAll(linReads'[linOp'.slot], linOp'.data)
          \/ lin_eeprom' = lin_eeprom /\ linReads'[linOp'.slot] = linReads[linOp'.slot]
       /\ LinOthersSame(linReads, linReads', linOp'.slot)]_vars

\* C31 happens: the power was lost in a write over a record of another
\* payload, the EEPROM has changed, the read of the slot returns an error
\* and another slot is still read
C31_Witness ==
  /\ linOp.kind = "powerloss" /\ ~ linOp.same /\ linOp.nvm > HEADER_SIZE
  /\ linLatest[linOp.slot] # NoPayload /\ linLatest[linOp.slot] # linOp.data
  /\ linReads[linOp.slot].ret < 0
  /\ \E j \in StorageIds \ { linOp.slot } : linReads[j].ret >= 0

(***************************************************************************)
(* The regions of the slots in the two EEPROM backends.                    *)
(***************************************************************************)
\* the run of the alternating backend goes on
EepromAltGoesOn == nAltWrites + nAltPowerLoss + nAltBusErrors < EepromAltOps

EepromNext ==
  \/ FlashIdle /\ LinIdle /\ EepromAltGoesOn /\ nAltBusErrors = 0 /\ AltTearNext
  \/ FlashIdle /\ LinIdle /\ EepromAltGoesOn /\ nAltPowerLoss = 0 /\ AltErrNext
  \/ FlashIdle /\ AltIdle /\ LinTearNext

\* a run of the alternating backend with writes and power losses or with
\* writes and I2C errors, or of the linear backend with writes, power losses
\* and I2C errors
SpecEeprom == Init /\ [][EepromNext]_vars

\* the bytes from the address a on, n of them
AddrRange(a, n) == a .. (a + n - 1)

\* the bytes reserved for the slot i of the linear backend
LinRegion(table, i) == AddrRange(table[i].addr, table[i].size)

\* the bytes reserved for the slot i in the block b of the alternating backend
AltRegion(entries, i, b) == AddrRange(entries[i].addr[b], estimated_image_sizes[i])

\* the regions of the linear backend, once StorageEeprom_Init has accepted
\* the layout, are apart and inside the device
LinRegionsApart(table, initialized) ==
  initialized =>
    /\ \A i \in StorageIds : LinRegion(table, i) \subseteq EepromAddrs
    /\ \A i, j \in StorageIds :
         i # j => LinRegion(table, i) \cap LinRegion(table, j) = { }

\* the regions of the alternating backend are apart and inside the device
AltRegionsApart(entries) ==
  /\ \A i \in StorageIds : \A b \in Blocks : AltRegion(entries, i, b) \subseteq EepromAddrs
  /\ \A i, j \in StorageIds : \A b, c \in Blocks :
       << i, b >> # << j, c >> => AltRegion(entries, i, b) \cap AltRegion(entries, j, c) = { }

\* the EEPROM after differs from the EEPROM before in the bytes of region
\* at most
OnlyRegionChanged(before, after, region) ==
  \A a \in EepromAddrs \ region : after[a] = before[a]

\* what the slots return when read after a restart over the EEPROM e
AltReadsAfterRestart(e) == AltReadsIn(StorageEepromAlternate_Init(AltResetState(e)))

\* a call of StorageEepromAlternate_Write for the slot op.slot, returned or
\* cut off, leaves the bytes outside the region of the slot in the block
\* that is not current and the reads of the other slots; after a power loss
\* the reads are those of a restart without the call
AltWriteIsolated(before, entries, before_reads, op, after, after_reads) ==
  /\ OnlyRegionChanged(before, after,
                       AltRegion(entries, op.slot, 1 - entries[op.slot].current_block))
  /\ \A j \in StorageIds \ { op.slot } :
       after_reads[j] = IF op.kind = "powerloss" THEN AltReadsAfterRestart(before)[j]
                        ELSE before_reads[j]

\* a call of StorageEeprom_Write for the slot op.slot, returned or cut off,
\* leaves the bytes outside the region of the slot and the reads of the
\* other slots
LinWriteIsolated(before, table, before_reads, op, after, after_reads) ==
  /\ OnlyRegionChanged(before, after, LinRegion(table, op.slot))
  /\ LinOthersSame(before_reads, after_reads, op.slot)

\* the kinds of steps in which a write is called
WriteKinds == { "write", "buserror", "powerloss" }

\* C32: in the linear and in the alternating backend the regions reserved
\* for different slots and blocks are apart and inside the device, and a
\* write to a slot, whether it returns OK, fails or is interrupted, changes
\* no byte outside the region it targets and no result of the read of
\* another slot.
C32_EepromSlotIsolation ==
  [][/\ LinRegionsApart(Storage_table, lin_is_initialized)
     /\ LinRegionsApart(Storage_table', lin_is_initialized')
     /\ AltRegionsApart(storage_entry)
     /\ AltRegionsApart(storage_entry')
     /\ altOp' # altOp /\ altOp'.kind \in WriteKinds =>
          AltWriteIsolated(eeprom, storage_entry, altReads, altOp', eeprom', altReads')
     /\ linOp' # linOp /\ linOp'.kind \in WriteKinds /\ lin_is_initialized =>
          LinWriteIsolated(lin_eeprom, Storage_table, linReads, linOp',
                           lin_eeprom', linReads')]_vars

\* C32 happens: the power was lost in a write that fills the region of the
\* first slot of the linear backend to its last byte, and the second slot,
\* which starts at the next byte, is read as before
C32_Witness ==
  /\ linOp.kind = "powerloss" /\ linOp.slot = 0 /\ ~ linOp.same
  /\ Len(linOp.data) + HEADER_SIZE = Storage_table[0].size
  /\ linOp.nvm = Storage_table[0].size
  /\ Storage_table[1].addr = Storage_table[0].addr + Storage_table[0].size
  /\ linReads[1].ret = Len(linLatest[1])

(***************************************************************************)
(* What a read that succeeds delivers.                                     *)
(***************************************************************************)
\* the payloads of the calls of StorageFlash_Write, of
\* StorageEepromAlternate_Write and of StorageEeprom_Write for the slot j
FlashCallPayloads(j) == FlashPayloads(j) \cup TearPayloads(j) \cup RejectPayloads(j)
AltCallPayloads(j) == AltPayloads(j) \cup AltTearPayloads(j)
LinCallPayloads(j) == LinPayloads(j) \cup LinTearPayloads(j)

\* the read has returned the size of the bytes it delivered, and they are
\* the payload of a call for the slot
DeliversPayloadOf(read, payloads) ==
  read.ret = Len(read.data) /\ read.data \in payloads

\* the record at the address a of the EEPROM e carries the checksum of its
\* header tail and payload
EepromRecordVerified(e, a) ==
  MemBytes(e, a, 4)
    = U32Bytes(Crc_Crc32(MemBytes(e, a + 4, HEADER_SIZE - 4 + EepromSizeField(e, a)),
                         U32_ZERO))

\* C33: in each backend a read returns a size only when the header tail and
\* the payload it read match the stored checksum (and, in the EEPROM
\* backends, the stored slot id is the one asked for), and the bytes
\* delivered are the whole payload of a call of Write for the same slot; the
\* read of a tampered record returns an error code.
C33_ReadsVerified ==
  /\ \A j \in StorageIds :
       reads[j].ret >= 0 =>
         /\ HeaderCrcMatches(mem, headers[j])
         /\ HeaderIndex(mem, headers[j]) = j
         /\ DeliversPayloadOf(reads[j], FlashCallPayloads(j))
  /\ \A j \in StorageIds :
       altReads[j].ret >= 0 =>
         LET a == storage_entry[j].addr[storage_entry[j].current_block]
         IN  /\ EepromRecordVerified(eeprom, a)
             /\ eeprom[a + 6] = j
             /\ DeliversPayloadOf(altReads[j], AltCallPayloads(j))
  /\ \A j \in StorageIds :
       linReads[j].ret >= 0 =>
         /\ EepromRecordVerified(lin_eeprom, Storage_table[j].addr)
         /\ lin_eeprom[Storage_table[j].addr + 6] = j
         /\ DeliversPayloadOf(linReads[j], LinCallPayloads(j))
  /\ tampered # NoTamper => \A n \in TamperBuffers : TamperedRead(n) < 0

(***************************************************************************)
(* The calls of Read as steps of their own.                                *)
(***************************************************************************)
\* the state StorageFlash_Read leaves: the function assigns to no field of
\* StorageFlash_Data and calls no flash operation, it copies to the buffer
\* of the caller
\* variant: a read before StorageFlash_Init runs StorageFlash_Init
FlashAfterRead_Initializing(st, storage_id, size) ==
  IF st.is_initialized THEN st ELSE StorageFlash_Init(st)

FlashAfterRead(st, storage_id, size) == st

\* the state StorageEepromAlternate_Read leaves: the function and
\* StorageEepromAlternate_ReadMinimalCheck read the entry of the slot, the
\* header is a local variable, StorageI2cEeprom_NvMemRead sends the address
\* and reads
AltAfterRead(st, index, size) == st

\* the state StorageEeprom_Read leaves: the function reads Storage_table,
\* the header is a local variable
LinAfterRead(st, index, size) == st

\* the slots the client asks for: the slots and a value that is none
ReadIds == StorageIds \cup { NR_OF_STORAGES }

\* the sizes of the buffer of the client: none, and room for every payload
ReadSizes(large) == { 0, large }

\* the client calls StorageFlash_Read
FlashRead(id, size) ==
  /\ SetFlashState(FlashAfterRead(FlashState, id, size))
  /\ \E r \in { StorageFlash_Read(FlashState, id, size) } :
       lastOp' = [kind |-> "read", slot |-> id, data |-> r.data, ret |-> r.ret,
                  complete |-> TRUE, moved |-> FALSE,
                  counterBefore |-> NULL, counter |-> NULL]
  /\ UNCHANGED << fits, nWrites, nRestarts, nPowerLoss, everWritten, altVars,
                  altHistVars, linVars, linHistVars, tampered >>

\* the client calls StorageEepromAlternate_Read
AltRead(i, size) ==
  /\ SetAltState(AltAfterRead(AltState, i, size))
  /\ \E r \in { StorageEepromAlternate_Read(AltState, i, size) } :
       altOp' = [kind |-> "read", slot |-> i, data |-> r.data, ret |-> r.ret,
                 written |-> 0, inplace |-> FALSE]
  /\ UNCHANGED << completed, interrupted, lastWritten, wrapped, nAltWrites,
                  nAltPowerLoss, nAltBusErrors, nWarmUp, everWritten, tampered,
                  flashVars, histVars, linVars, linHistVars >>

\* the client calls StorageEeprom_Read
LinRead(i, size) ==
  /\ linOp.kind # "load"
  /\ SetLinState(LinAfterRead(LinState, i, size))
  /\ \E r \in { StorageEeprom_Read(LinState, i, size) } :
       linOp' = [kind |-> "read", slot |-> i, data |-> r.data, ret |-> r.ret,
                 nvm |-> r.nvm, initialized |-> lin_is_initialized, same |-> TRUE]
  /\ UNCHANGED << linLatest, linInitRet, nLinWrites, everWritten, tampered,
                  flashVars, histVars, altVars, altHistVars >>

\* the run goes on with a call that is not a read
ReadGoesOn ==
  nWrites + nRestarts + nAltWrites + nAltPowerLoss + nAltBusErrors + nLinWrites
    < ReadMaxOps

ReadNext ==
  \/ AltIdle /\ LinIdle /\ ReadGoesOn /\ RejectNext
  \/ FlashIdle /\ LinIdle /\ ReadGoesOn /\ AltErrNext
  \/ FlashIdle /\ AltIdle /\ ReadGoesOn /\ LinTearNext
  \/ AltIdle /\ LinIdle /\ \E id \in ReadIds : \E size \in ReadSizes(ReadBufferSize) :
       FlashRead(id, size)
  \/ FlashIdle /\ LinIdle /\ \E i \in ReadIds : \E size \in ReadSizes(AltReadBufferSize) :
       AltRead(i, size)
  \/ FlashIdle /\ AltIdle /\ \E i \in ReadIds : \E size \in ReadSizes(LinReadBufferSize) :
       LinRead(i, size)

\* a run of one of the three backends with calls of Read between the writes,
\* the resets, the restarts, the I2C errors and the power losses
SpecRead == Init /\ [][ReadNext]_vars

\* a call of Read has returned in this step
ReadStep ==
  \/ lastOp' # lastOp /\ lastOp'.kind = "read"
  \/ altOp' # altOp /\ altOp'.kind = "read"
  \/ linOp' # linOp /\ linOp'.kind = "read"

\* C34: a call of Read of any of the three backends, whether it succeeds or
\* fails, changes neither the contents of the flash or of the EEPROM nor the
\* state of the backend in RAM: the layout table, the initialized flags, the
\* current blocks and counters, the pointers to the live records, the append
\* offsets and states of the pages, the active page.
C34_ReadsChangeNothing ==
  [][ReadStep => UNCHANGED << flashVars, altVars, linVars >>]_vars

\* C34 happens: after a reset a read of the flash backend has returned
\* STORAGE_NOT_INITIALIZED for a slot with a record in the flash, and the
\* backend is still not initialized
C34_Witness ==
  /\ lastOp.kind = "read" /\ lastOp.ret = STORAGE_NOT_INITIALIZED
  /\ lastOp.slot \in StorageIds
  /\ ~ is_initialized
  /\ \E page \in Pages : StorageFlash_RecordIsValid(mem, page, 0)

\* ---------------------------------------------------------------------------
\* StorageFlash_Init over flash contents that the module has not written

\* records that the scan of StorageFlash_Init may come upon: a record
\* without payload, a record of one byte, a record that ends four bytes before
\* the page info, a record that ends at the page info, a record whose
\* checksum is wrong and the size field of erased flash
ForgedShapes ==
  { [size |-> 0, index |-> 0, counter |-> 0, crc_ok |-> TRUE],
    [size |-> 1, index |-> 1, counter |-> 0, crc_ok |-> TRUE],
    [size |-> NV_MEM_PAGE_INFO_ADDR - 2 * HEADER_SIZE - 4, index |-> 0, counter |-> 1,
     crc_ok |-> TRUE],
    [size |-> NV_MEM_PAGE_INFO_ADDR - HEADER_SIZE, index |-> 255, counter |-> 0,
     crc_ok |-> TRUE],
    [size |-> 0, index |-> 0, counter |-> 0, crc_ok |-> FALSE],
    [size |-> 65535, index |-> 0, counter |-> 0, crc_ok |-> FALSE] }

\* the addresses of a page where such a record is put: the start of the page,
\* after a record without payload, and four bytes before the page info, where
\* the size field of the header lies in the page info
ForgedAddresses == { 0, HEADER_SIZE, NV_MEM_PAGE_INFO_ADDR - 4 }

\* the payload of a forged record: bytes of value 0, none if the record would
\* reach into the page info
ForgedPayload(address, shape) ==
  IF address + HEADER_SIZE + shape.size <= NV_MEM_PAGE_INFO_ADDR
    THEN [k \in 1 .. shape.size |-> 0]
    ELSE << >>

\* the bytes of a forged record: the checksum as StorageFlash_Write computes
\* it if the shape asks for a valid one, else the checksum with one bit changed
ForgedRecord(address, shape) ==
  LET tail  == HeaderTail(shape.size, shape.index, shape.counter)
      data  == ForgedPayload(address, shape)
      crc32 == U32Bytes(Crc_Crc32(data, Crc_Crc32(tail, U32_ZERO)))
  IN  (IF shape.crc_ok THEN crc32 ELSE [crc32 EXCEPT ![1] = FlipBit(@, 1)])
        \o tail \o data

\* the memory m with the bytes of a record at the address of the page
ForgedMem(m, page, address, bytes) ==
  [a \in MemAddrs |->
     IF a >= PagePtr(page, address) /\ a < PagePtr(page, address) + Len(bytes)
       THEN bytes[a - PagePtr(page, address) + 1]
       ELSE m[a]]

\* the device starts with a record in the flash that the module has not
\* written, and runs StorageFlash_Init
FlashStartOn(page, address, shape) ==
  /\ nRestarts < MaxForged
  /\ \E st \in { StorageFlash_Init(ResetState(
                   ForgedMem(mem, page, address, ForgedRecord(address, shape)))) } :
       SetFlashState(st)
  /\ lastOp' = [kind |-> "start", slot |-> NoSlot, data |-> << >>,
                ret |-> OK, complete |-> TRUE, moved |-> FALSE,
                counterBefore |-> NULL, counter |-> NULL]
  /\ nRestarts' = nRestarts + 1
  /\ UNCHANGED << fits, nWrites, nPowerLoss, everWritten, altVars, altHistVars,
                  linVars, linHistVars, tampered >>

InitScanNext ==
  \E page \in Pages : \E address \in ForgedAddresses : \E shape \in ForgedShapes :
    FlashStartOn(page, address, shape)

SpecInitScan == Init /\ [][InitScanNext]_vars

\* the values of address at the test of the while loop over the records of a
\* page in StorageFlash_Init, the last one being the value the loop ends with
RECURSIVE InitScanAddresses(_, _, _)
InitScanAddresses(m, page, address) ==
  IF address < NV_MEM_PAGE_INFO_ADDR /\ StorageFlash_RecordIsValid(m, page, address)
    THEN << address >>
           \o InitScanAddresses(m, page, address + InitScanAdvance(m, PagePtr(page, address)))
    ELSE << address >>

\* the scan of a page has run its loop body at most once per sizeof(header)
\* bytes of the page, each time at an address before the page info and at
\* least sizeof(header) after the one before, and StorageFlash_Init has
\* stored the address it ended with
InitScanBounded(page) ==
  LET visited == InitScanAddresses(mem, page, 0)
      n       == Len(visited)
  IN  /\ visited[1] = 0
      /\ n - 1 <= NV_MEM_PAGE_INFO_ADDR \div HEADER_SIZE
      /\ \A k \in 1 .. (n - 1) :
           /\ visited[k] < NV_MEM_PAGE_INFO_ADDR
           /\ visited[k + 1] - visited[k] >= HEADER_SIZE
      /\ visited[n] <= NV_MEM_PAGE_INFO_ADDR => pages_info[page].address = visited[n]
      /\ pages_info[page].status \in InitStatuses

\* C35: for every content of the two flash pages StorageFlash_Init ends and
\* returns OK with is_initialized set: each iteration of the scan of a page
\* advances the address by at least sizeof(header), and the scan stops at the
\* address of the page info.
C35_InitScanTerminates ==
  lastOp.kind = "start" =>
    /\ is_initialized
    /\ lastOp.ret = OK
    /\ \A page \in Pages : InitScanBounded(page)

\* StorageFlash_Init has scanned two records of a page that it has not
\* written, the second one ending four bytes before the page info, and has
\* found the other page corrupted or empty
C35_Witness ==
  /\ lastOp.kind = "start"
  /\ \E page \in Pages :
       /\ InitScanAddresses(mem, page, 0)
            = << 0, HEADER_SIZE, NV_MEM_PAGE_INFO_ADDR - 4 >>
       /\ pages_info[page].address = NV_MEM_PAGE_INFO_ADDR - 4

\* ---------------------------------------------------------------------------
\* the erase counter of the page info

\* a payload whose record ends four bytes before the page info
NearPayload == [k \in 1 .. (NV_MEM_PAGE_INFO_ADDR - HEADER_SIZE - 4) |-> 1 + (k % 2)]

\* payloads that fill the pages, so that the writes erase them
ErasePayloads(id) ==
  IF id = 0 THEN { << 1 >>, ExactPayload, NearPayload }
  ELSE IF id = 1 THEN { << 2 >> }
  ELSE { }

\* history: per page the number of calls of StorageFlash_ErasePage so far,
\* kept in lastOp by the actions below
ErasesSoFar ==
  IF "erases" \in DOMAIN lastOp THEN lastOp.erases ELSE [page \in Pages |-> 0]

\* the client calls StorageFlash_Write; the erases of the call are counted
FlashCountedWrite(id, data) ==
  /\ nWrites < EraseMaxWrites
  /\ \E r \in { StorageFlash_Write(FlashState, id, data) } :
       /\ SetFlashState(r.st)
       /\ lastOp' = [kind |-> "write", slot |-> id, data |-> data,
                     ret |-> r.ret, complete |-> TRUE, moved |-> FALSE,
                     counterBefore |-> NULL, counter |-> NULL,
                     erases |-> [page \in Pages |->
                                   ErasesSoFar[page] + r.st.erased[page]]]
       /\ everWritten' = [everWritten EXCEPT ![id] = @ \/ r.ret = OK]
  /\ fits' = (fits /\ FitsOnePage(FlashState, Len(data)))
  /\ nWrites' = nWrites + 1
  /\ UNCHANGED << nRestarts, nPowerLoss, altVars, altHistVars, linVars,
                  linHistVars, tampered >>

\* the device is restarted between two calls and runs StorageFlash_Init
FlashCountedRestart ==
  /\ nRestarts < 1
  /\ lastOp.kind = "write"
  /\ \E st \in { StorageFlash_Init(ResetState(mem)) } : SetFlashState(st)
  /\ lastOp' = [kind |-> "restart", slot |-> NoSlot, data |-> << >>,
                ret |-> OK, complete |-> TRUE, moved |-> FALSE,
                counterBefore |-> NULL, counter |-> NULL,
                erases |-> ErasesSoFar]
  /\ nRestarts' = nRestarts + 1
  /\ UNCHANGED << fits, nWrites, nPowerLoss, everWritten, altVars, altHistVars,
                  linVars, linHistVars, tampered >>

EraseNext ==
  \/ \E id \in StorageIds : \E data \in ErasePayloads(id) : FlashCountedWrite(id, data)
  \/ FlashCountedRestart

SpecErase == Init /\ [][EraseNext]_vars

\* values of the erase counter
EraseCounterValues == { 0, 4, 65535 }

\* the memory with another erase counter in the page info of a page
WithEraseCounter(m, page, value) ==
  ForgedMem(m, page, NV_MEM_PAGE_INFO_ADDR, U16Bytes(value))

\* what StorageFlash_Init selects: the live records, the pages and the
\* active page
InitSelection(m) ==
  LET st == StorageFlash_Init(ResetState(m))
  IN  << st.headers, st.pages_info, st.active_page >>

\* StorageFlash_Init selects the same whatever the erase counters are
InitIgnoresEraseCounter ==
  \A page \in Pages : \A value \in EraseCounterValues :
    InitSelection(WithEraseCounter(mem, page, value)) = InitSelection(mem)

Glitches ==
  { << I2C_TIMEOUT >>,
    [k \in 1 .. (EEPROM_NR_OF_WRITE_RETRIES - 1) |-> I2C_ERROR],
    [k \in 1 .. EEPROM_NR_OF_WRITE_RETRIES |->
       IF k = EEPROM_NR_OF_WRITE_RETRIES THEN I2C_TIMEOUT ELSE I2C_ERROR],
    BusDown,
    [k \in 1 .. (EEPROM_NR_OF_WRITE_RETRIES + 1) |->
       IF k = EEPROM_NR_OF_WRITE_RETRIES THEN I2C_ERROR ELSE I2C_TIMEOUT] }

\* the client calls StorageEepromAlternate_Write; after n transfers the
\* attempts of glitch fail
AltGlitchWrite(i, data) ==
  /\ nAltBusErrors < RetryMaxOps
  /\ \E n \in 0 .. (AltTransfersOfWrite(i, data) - 1) : \E glitch \in Glitches :
     \E r \in { StorageEepromAlternate_Write(
                  [AltState EXCEPT !.bus = n, !.glitch = glitch], i, data) } :
       /\ SetAltState([r.st EXCEPT !.bus = -1, !.glitch = BusDown, !.tries = << >>])
       /\ altOp' = [kind |-> "glitch", slot |-> i, data |-> data, ret |-> r.ret,
                    written |-> (-1) - r.st.fuel,
                    inplace |-> r.st.eeprom = AltEepromAfterWrite(i, data),
                    before |-> n, glitch |-> glitch, tries |-> r.st.tries,
                    transfers |-> AltTransfersOfWrite(i, data),
                    clean |-> StorageEepromAlternate_Write(AltState, i, data).ret]
  /\ nAltBusErrors' = nAltBusErrors + 1
  /\ UNCHANGED << linVars, linHistVars, tampered, everWritten, flashVars, histVars,
                  completed, interrupted, lastWritten, wrapped,
                  nAltWrites, nAltPowerLoss, nWarmUp >>

\* the client calls StorageEeprom_Write; after n transfers the attempts of
\* glitch fail
LinGlitchWrite(i, data, pad) ==
  /\ linOp.kind \in { "init", "glitch" }
  /\ nLinWrites < RetryMaxOps
  /\ \E n \in 0 .. (LinTransfersOfWrite(i, data, pad) - 1) : \E glitch \in Glitches :
     \E r \in { StorageEeprom_Write(
                  [LinState EXCEPT !.bus = n, !.glitch = glitch], i, data, pad) } :
       /\ SetLinState([r.st EXCEPT !.bus = -1, !.glitch = BusDown, !.tries = << >>])
       /\ linOp' = [kind |-> "glitch", slot |-> i, data |-> data, ret |-> r.ret,
                    nvm |-> r.st.nvm, initialized |-> lin_is_initialized,
                    same |-> r.st.eeprom = lin_eeprom,
                    before |-> n, glitch |-> glitch, tries |-> r.st.tries,
                    transfers |-> LinTransfersOfWrite(i, data, pad),
                    clean |-> StorageEeprom_Write(LinState, i, data, pad).ret]
  /\ nLinWrites' = nLinWrites + 1
  /\ UNCHANGED << linInitRet, linLatest, everWritten, tampered,
                  flashVars, histVars, altVars, altHistVars >>

RetryNext ==
  \/ /\ FlashIdle /\ LinIdle
     /\ \E i \in StorageIds : \E data \in AltTearPayloads(i) : AltGlitchWrite(i, data)
  \/ FlashIdle /\ AltIdle /\ \E sizes \in LinLayouts : LinConfigure(sizes)
  \/ FlashIdle /\ AltIdle /\ LinInitCall
  \/ /\ FlashIdle /\ AltIdle
     /\ \E i \in StorageIds : \E data \in LinTearPayloads(i) : \E pad \in PaddingBytes :
          LinGlitchWrite(i, data, pad)

\* the EEPROM backends with I2C attempts that fail
SpecRetry == Init /\ [][RetryNext]_vars

\* the attempts of the transfers of the call op: no transfer is attempted more
\* than EEPROM_NR_OF_WRITE_RETRIES times; the transfers before the failing
\* one take one attempt; if fewer attempts fail than that, the transfer ends
\* with the first attempt that does not fail, and the call sends its other
\* transfers and returns what it returns when no attempt fails (clean); else
\* the call returns the status of the last attempt and this transfer is the
\* last one of the call
RetriesBounded(op) ==
  LET failing == op.before + 1
  IN  /\ \A k \in 1 .. Len(op.tries) :
           op.tries[k] >= 1 /\ op.tries[k] <= EEPROM_NR_OF_WRITE_RETRIES
      /\ Len(op.tries) >= failing
      /\ \A k \in 1 .. op.before : op.tries[k] = 1
      /\ IF Len(op.glitch) < EEPROM_NR_OF_WRITE_RETRIES
           THEN /\ op.tries[failing] = Len(op.glitch) + 1
                /\ op.ret = op.clean
                /\ Len(op.tries) = op.transfers
                /\ \A k \in (failing + 1) .. Len(op.tries) : op.tries[k] = 1
           ELSE /\ op.tries[failing] = EEPROM_NR_OF_WRITE_RETRIES
                /\ op.ret = op.glitch[EEPROM_NR_OF_WRITE_RETRIES]
                /\ Len(op.tries) = failing

\* C37: StorageI2cEeprom_NvMemWrite attempts each transfer of up to one
\* EEPROM page at most 100 times and stops at the first OK; after 100 failed
\* attempts it returns the status of the last one and sends no other
\* transfer, and the backends return without calling the raw write again.
C37_BoundedWriteRetry ==
  /\ altOp.kind = "glitch" => RetriesBounded(altOp)
  /\ linOp.kind = "glitch" => RetriesBounded(linOp)

\* a write of the linear backend has given up the first of its
\* transfers after 100 attempts of which the last one timed out
C37_Witness ==
  /\ linOp.kind = "glitch"
  /\ linOp.tries = << EEPROM_NR_OF_WRITE_RETRIES >>
  /\ linOp.ret = I2C_TIMEOUT
  /\ linOp.transfers > 1
  /\ linOp.before = 0

=============================================================================
